---- MODULE Spec2Model ----
(***************************************************************************)
(* Ingestion consistency and orchestration engine of the research          *)
(* knowledge graph: name canonicalisation, the node / edge / paper         *)
(* repositories with their ON CONFLICT merges, endpoint resolution, the    *)
(* per-paper pipeline (IngestionPipeline.ingestPaper / reprocessPaper over *)
(* AgentOrchestrator.processPaper) and the chunked batch controller        *)
(* (IngestionPipeline.ingestPapers).                                       *)
(*                                                                         *)
(* Strings are sequences of one-character strings, confidences are tenths  *)
(* (10 is 1.0), UUIDs are the row numbers 1, 2, ... of the tables.         *)
(***************************************************************************)
EXTENDS Integers, Sequences, FiniteSets, TLC

\* ------------------------------------------------------------------ bounds
\* Number of NodeRepository calls made by the client of SpecStore.
MaxOps == 3
\* Number of EdgeRepository calls made by the client of SpecEdges.
MaxEdgeOps == 2
\* Number of papers handed to ingestPapers.
MaxPapers == 2
\* Number of ingestPaper / reprocessPaper calls made by the client of SpecPaper.
MaxCalls == 2
\* the longest name handed to normalizeName
MaxNameLen == 5
\* the largest retries argument handed to fetchWithRetry
MaxRetries == 3

\* ------------------------------------------------------------- characters
UpperChars == {"A", "B", "N", "P", "X", "Y"}
LowerChars == {"a", "b", "n", "p", "x", "y"}
DigitChars == {"1", "2"}
SpaceChars == {" ", "\t"}

toLowerCaseChar(c) ==
  CASE c = "A" -> "a" [] c = "B" -> "b" [] c = "N" -> "n"
    [] c = "P" -> "p" [] c = "X" -> "x" [] c = "Y" -> "y"
    [] OTHER -> c

toLowerCase(s) == [i \in 1..Len(s) |-> toLowerCaseChar(s[i])]

\* \s of the regular expressions
IsSpace(c) == c \in SpaceChars

\* \w of the regular expressions: [A-Za-z0-9_]
IsWordChar(c) == c \in UpperChars \cup LowerChars \cup DigitChars \cup {"_"}

RECURSIVE TrimLeft(_)
TrimLeft(s) ==
  IF s # <<>> /\ IsSpace(Head(s)) THEN TrimLeft(Tail(s)) ELSE s

RECURSIVE TrimRight(_)
TrimRight(s) ==
  IF s # <<>> /\ IsSpace(s[Len(s)]) THEN TrimRight(SubSeq(s, 1, Len(s) - 1)) ELSE s

\* String.prototype.trim
trim(s) == TrimRight(TrimLeft(s))

\* .replace(/\s+/g, ' '): every maximal run of whitespace becomes one space
RECURSIVE CollapseSpaces(_)
CollapseSpaces(s) ==
  IF s = <<>> THEN <<>>
  ELSE IF IsSpace(Head(s))
       THEN <<" ">> \o CollapseSpaces(TrimLeft(s))
       ELSE <<Head(s)>> \o CollapseSpaces(Tail(s))

KeptChar(c) == IsWordChar(c) \/ IsSpace(c) \/ c = "-"

\* .replace(/[^\w\s-]/g, ''): drop what is neither \w, \s nor a hyphen
StripSpecial(s) == SelectSeq(s, KeptChar)

\* a plausible slip: the special characters are not removed
normalizeName_NoStrip(name) == CollapseSpaces(trim(toLowerCase(name)))

normalizeName(name) == StripSpecial(CollapseSpaces(trim(toLowerCase(name))))

\* ------------------------------------------------------------ small helpers
Max(a, b) == IF a >= b THEN a ELSE b
Min(a, b) == IF a <= b THEN a ELSE b

\* JavaScript undefined (an absent property) and SQL NULL
Undefined == "undefined"
Null == "NULL"

\* x || null of a text parameter: undefined and '' become NULL
OrNull(x) == IF x = Undefined \/ x = "" THEN Null ELSE x

\* COALESCE(a, b)
Coalesce(a, b) == IF a # Null THEN a ELSE b

\* jsonb old || new: shallow union, the right operand wins on a shared key
JsonbConcat(old, new) == new @@ old

\* JSON.stringify of an object literal drops the properties that are undefined
DropUndefined(m) == [k \in {x \in DOMAIN m : m[x] # Undefined} |-> m[k]]

EmptyMeta == [k \in {} |-> Undefined]

\* the closed enumerations: node_type and edge_type
NodeTypes == {"paper", "concept", "method", "dataset", "metric", "author",
              "technique", "application", "challenge", "result"}
EdgeTypes == {"cites", "improves_on", "extends", "compares_with", "builds_upon",
              "contradicts", "introduces", "applies", "evaluates", "addresses",
              "related_to", "enables", "requires", "alternative_to",
              "generalizes", "specializes", "outperforms", "combines_with",
              "replaces", "authored_by", "uses_dataset", "measures_with",
              "solves", "inspired_by"}

\* ------------------------------------------------------------------ state
VARIABLES
  nodes,      \* table nodes: row i has id i
  edges,      \* table edges: row i has id i
  papers,     \* table papers: id -> row, the id being the paper node's id
  logs,       \* table extraction_logs: paper_id -> its rows, in insertion order
  logsUp,     \* whether an INSERT INTO extraction_logs currently succeeds
  upserts,    \* every (type, canonical name, id) a NodeRepository.upsert returned
  call,       \* the repository call made last by the client of SpecStore
  ops,        \* number of calls made so far by the client of the specification
  other,      \* SpecConv: the tables when the two calls arrive in the other order
  batch,      \* ingestPapers: its papers argument
  batchSize,  \* ingestPapers: its batchSize argument
  ctl,        \* ingestPapers: position, loop index i, counters
  runs        \* run r > 0: ingestPaper(batch[r]); run 0: reprocessPaper

NodeIds(ns) == 1..Len(ns)

\* ------------------------------------------------- NodeRepository (tables)
\* the row the unique index (type, canonical_name) finds, 0 when none
FindNodeId(ns, type, canonical) ==
  IF \E i \in NodeIds(ns) : ns[i].type = type /\ ns[i].canonical_name = canonical
  THEN CHOOSE i \in NodeIds(ns) : ns[i].type = type /\ ns[i].canonical_name = canonical
  ELSE 0

\* the INSERT of upsert is refused by the node_type enumeration
UpsertThrows(type, name) == type \notin NodeTypes

NewNode(type, name, metadata, confidence) ==
  [type |-> type, name |-> name, canonical_name |-> normalizeName(name),
   metadata |-> metadata, confidence |-> confidence]

\* a plausible slip: the incoming row replaces the stored confidence and metadata
MergeNode_Overwrite(old, metadata, confidence) ==
  [old EXCEPT !.metadata = metadata, !.confidence = confidence]

\* DO UPDATE SET of upsert
MergeNode(old, metadata, confidence) ==
  [old EXCEPT !.metadata = JsonbConcat(old.metadata, metadata),
              !.confidence = Max(old.confidence, confidence)]

\* a plausible slip: a plain INSERT with no ON CONFLICT arm and no unique index
UpsertNodes_AlwaysInsert(ns, type, name, metadata, confidence) ==
  Append(ns, NewNode(type, name, metadata, confidence))

\* the table after NodeRepository.upsert (a call that does not throw)
UpsertNodes(ns, type, name, metadata, confidence) ==
  LET id == FindNodeId(ns, type, normalizeName(name))
  IN IF id = 0 THEN Append(ns, NewNode(type, name, metadata, confidence))
     ELSE [ns EXCEPT ![id] = MergeNode(ns[id], metadata, confidence)]

\* RETURNING id of upsert, read off the table after the statement
UpsertId(nsAfter, type, name) == FindNodeId(nsAfter, type, normalizeName(name))

\* ------------------------------------------------- EdgeRepository (tables)
\* a plausible slip: the unique key does not tell the direction
FindEdgeId_Undirected(es, type, s, t) ==
  LET Same(e) == /\ e.type = type
                 /\ \/ e.source_id = s /\ e.target_id = t
                    \/ e.source_id = t /\ e.target_id = s
  IN IF \E i \in 1..Len(es) : Same(es[i])
     THEN CHOOSE i \in 1..Len(es) : Same(es[i])
     ELSE 0

FindEdgeId(es, type, s, t) ==
  IF \E i \in 1..Len(es) : es[i].type = type /\ es[i].source_id = s /\ es[i].target_id = t
  THEN CHOOSE i \in 1..Len(es) : es[i].type = type /\ es[i].source_id = s /\ es[i].target_id = t
  ELSE 0

\* a plausible slip: no foreign keys on source_id and target_id
CreateThrows_NoForeignKey(ns, type, s, t) == type \notin EdgeTypes

\* the INSERT of create is refused: edge_type enumeration, foreign keys to nodes(id)
CreateThrows(ns, type, s, t) ==
  type \notin EdgeTypes \/ s \notin NodeIds(ns) \/ t \notin NodeIds(ns)

NewEdge(type, s, t, description, evidence, confidence, metadata) ==
  [type |-> type, source_id |-> s, target_id |-> t,
   description |-> OrNull(description), evidence |-> OrNull(evidence),
   confidence |-> confidence, metadata |-> metadata]

\* a plausible slip: the incoming confidence replaces the stored one
MergeEdge_Overwrite(old, description, evidence, confidence, metadata) ==
  [old EXCEPT !.description = Coalesce(OrNull(description), old.description),
              !.evidence = Coalesce(OrNull(evidence), old.evidence),
              !.confidence = confidence,
              !.metadata = JsonbConcat(old.metadata, metadata)]

\* DO UPDATE SET of create
MergeEdge(old, description, evidence, confidence, metadata) ==
  [old EXCEPT !.description = Coalesce(OrNull(description), old.description),
              !.evidence = Coalesce(OrNull(evidence), old.evidence),
              !.confidence = Max(old.confidence, confidence),
              !.metadata = JsonbConcat(old.metadata, metadata)]

\* a plausible slip: a plain INSERT, without the ON CONFLICT clause
CreateEdges_AlwaysInsert(es, type, s, t, description, evidence, confidence, metadata) ==
  Append(es, NewEdge(type, s, t, description, evidence, confidence, metadata))

\* the table after EdgeRepository.create (a call that does not throw)
CreateEdges(es, type, s, t, description, evidence, confidence, metadata) ==
  LET id == FindEdgeId(es, type, s, t)
  IN IF id = 0
     THEN Append(es, NewEdge(type, s, t, description, evidence, confidence, metadata))
     ELSE [es EXCEPT ![id] = MergeEdge(es[id], description, evidence, confidence, metadata)]

\* ---------------------------------------------------- NodeRepository.search
\* text ILIKE '%query%': a case-blind substring match, "_" of the pattern
\* standing for any one character
ILikeContains(text, query) ==
  \E i \in 1..(Len(text) - Len(query) + 1) :
    \A j \in 1..Len(query) :
      query[j] = "_" \/ toLowerCaseChar(text[i + j - 1]) = toLowerCaseChar(query[j])

IsAlnum(c) == c \in UpperChars \cup LowerChars \cup DigitChars

\* pg_trgm: the trigrams of the lower-cased words, each padded "  w "
RECURSIVE WordsOf(_, _)
WordsOf(s, cur) ==
  IF s = <<>> THEN (IF cur = <<>> THEN {} ELSE {cur})
  ELSE IF IsAlnum(Head(s)) THEN WordsOf(Tail(s), Append(cur, toLowerCaseChar(Head(s))))
  ELSE (IF cur = <<>> THEN {} ELSE {cur}) \cup WordsOf(Tail(s), <<>>)

Trigrams(s) ==
  UNION { LET p == <<" ", " ">> \o w \o <<" ">>
          IN {SubSeq(p, i, i + 2) : i \in 1..(Len(p) - 2)} : w \in WordsOf(s, <<>>) }

\* similarity(a, b) = SimShared / SimTotal, 0 when either has no trigram
SimShared(a, b) == Cardinality(Trigrams(a) \cap Trigrams(b))
SimTotal(a, b) == Max(1, Cardinality(Trigrams(a) \cup Trigrams(b)))
MoreSimilar(a1, a2, q) == SimShared(a1, q) * SimTotal(a2, q) > SimShared(a2, q) * SimTotal(a1, q)

SearchMatches(ns, query) ==
  {i \in NodeIds(ns) : ILikeContains(ns[i].name, query)
                       \/ ILikeContains(ns[i].canonical_name, query)}

\* the ids search(query)[0] can be: a match no other match is ranked above
\* (ORDER BY similarity DESC leaves the order of equally similar rows open)
SearchFirst(ns, query) ==
  {i \in SearchMatches(ns, query) :
     \A k \in SearchMatches(ns, query) : ~MoreSimilar(ns[k].name, ns[i].name, query)}

\* ------------------------------------------ EdgeRepository.resolveEntityId
\* a plausible slip: the paper's own node is tried before the entity map
ResolveEntityId_PaperFirst(ns, entityName, paperId, entityNameToIdMap) ==
  LET normalized == normalizeName(entityName)
  IN IF paperId \in NodeIds(ns) /\ normalizeName(ns[paperId].name) = normalized
     THEN {paperId}
     ELSE IF normalized \in DOMAIN entityNameToIdMap THEN {entityNameToIdMap[normalized]}
     ELSE IF SearchFirst(ns, entityName) # {} THEN SearchFirst(ns, entityName)
     ELSE {0}

\* the ids resolveEntityId can return, 0 standing for null
ResolveEntityId(ns, entityName, paperId, entityNameToIdMap) ==
  LET normalized == normalizeName(entityName)
  IN IF normalized \in DOMAIN entityNameToIdMap THEN {entityNameToIdMap[normalized]}
     ELSE IF paperId \in NodeIds(ns) /\ normalizeName(ns[paperId].name) = normalized
          THEN {paperId}
     ELSE IF SearchFirst(ns, entityName) # {} THEN SearchFirst(ns, entityName)
     ELSE {0}

\* =========================================================================
\* SpecStore: one client calling NodeRepository.upsert, one call after the
\* other, on an initially empty database.
\* =========================================================================
NoCall == [op |-> "none"]

\* arguments the client passes to upsert; "algorithm" is no node_type
StoreNames == {<<"X">>, <<"x", "!">>, <<"Y">>}
StoreMetas == {EmptyMeta,
               "description" :> "d1",
               ("description" :> "d2") @@ ("section" :> "s1")}
StoreConfs == {5, 6, 9}

tablesVars == <<nodes, edges, papers, logs, logsUp, upserts>>

InitTables ==
  /\ nodes = <<>>
  /\ edges = <<>>
  /\ papers = [i \in {} |-> NoCall]
  /\ logs = [i \in {} |-> <<>>]
  /\ upserts = {}

\* NodeRepository.upsert(type, name, metadata, 'system', confidence)
StoreUpsert(type, name, metadata, confidence) ==
  /\ ops' = ops + 1
  /\ IF UpsertThrows(type, name)
     THEN /\ call' = [op |-> "upsert", threw |-> TRUE, type |-> type, name |-> name,
                      metadata |-> metadata, confidence |-> confidence,
                      hit |-> FALSE, old |-> NoCall, id |-> 0]
          /\ UNCHANGED <<nodes, upserts>>
     ELSE LET before == FindNodeId(nodes, type, normalizeName(name))
              after == UpsertNodes(nodes, type, name, metadata, confidence)
              id == UpsertId(after, type, name)
          IN /\ nodes' = after
             /\ upserts' = upserts \cup {<<type, normalizeName(name), id>>}
             /\ call' = [op |-> "upsert", threw |-> FALSE, type |-> type, name |-> name,
                         metadata |-> metadata, confidence |-> confidence,
                         hit |-> before # 0,
                         old |-> IF before # 0 THEN nodes[before] ELSE NoCall,
                         id |-> id]
  /\ UNCHANGED <<other, logsUp, edges, papers, logs, batch, batchSize, ctl, runs>>

StoreUpsertValid ==
  /\ ops < MaxOps
  /\ \E name \in StoreNames, metadata \in StoreMetas, confidence \in StoreConfs :
       StoreUpsert("technique", name, metadata, confidence)

\* the same name under another type is another key
StoreUpsertOtherType ==
  /\ ops < MaxOps
  /\ StoreUpsert("method", <<"X">>, EmptyMeta, 6)

\* a type that is no node_type: the INSERT raises, nothing is written
StoreUpsertBadType ==
  /\ ops < MaxOps
  /\ StoreUpsert("algorithm", <<"X">>, EmptyMeta, 6)

\* =========================================================================
\* The per-paper pipeline and the batch controller
\* =========================================================================

\* ------------------------------------------- the text-analysis capability
\* What the capability answers is a function of the text it is given
\* (fixed extractor outputs); whether a call throws is open at every call.
EntityCandidate(name, type, description, confidence) ==
  [name |-> name, type |-> type, description |-> description,
   confidence |-> confidence, context |-> Undefined, metadata |-> EmptyMeta]

RelationshipCandidate(source, target, type, evidence, confidence) ==
  [source |-> source, target |-> target, type |-> type, description |-> Undefined,
   evidence |-> evidence, confidence |-> confidence, metadata |-> EmptyMeta]

Title1 == <<"P", "1">>
Title2 == <<"P", "2">>
Title3 == <<"P", "-", "1">>
TitleC == <<"P", "B">>

\* parsed.entities of the entity stage's reply
EntityReply(text) ==
  CASE text = "textA" ->
         << EntityCandidate(<<"X">>, "technique", "d1", 6),
            EntityCandidate(<<"x", "!">>, "technique", Undefined, 6) >>
    [] text = "textB" ->
         << EntityCandidate(<<"X">>, "technique", "d2", 9),
            EntityCandidate(<<"Y">>, "method", Undefined, 12) >>
    [] text = "textE" ->
         << EntityCandidate(<<"Y">>, "method", "d3", 0),
            EntityCandidate(<<"N">>, "algorithm", Undefined, 7) >>
    [] text = "textC" ->
         << EntityCandidate(<<"X">>, "technique", "d1", 6),
            EntityCandidate(<<"Y">>, "method", Undefined, 8),
            EntityCandidate(<<"x", "!">>, "technique", Undefined, 9) >>
    [] OTHER -> << >>

\* parsed.relationships of the relationship stage's reply
RelationshipReply(text) ==
  CASE text = "textA" ->
         << RelationshipCandidate(<<"X">>, <<"x", "!">>, "related_to", "e1", 5),
            RelationshipCandidate(Title2, <<"X">>, "builds_upon", Undefined, 7) >>
    [] text = "textB" ->
         << RelationshipCandidate(<<"X">>, <<"Y">>, "applies", Undefined, 9),
            RelationshipCandidate(<<"Y">>, Title1, "improves_on", "e2", 0) >>
    [] text = "textC" ->
         << RelationshipCandidate(<<"X">>, <<"Y">>, "mentions", "e1", 8),
            RelationshipCandidate(TitleC, <<"X">>, "introduces", "e1", 8),
            RelationshipCandidate(TitleC, Title1, "cites", "e1", 8),
            RelationshipCandidate(<<"Y">>, <<"X">>, "applies", "e1", 8) >>
    [] OTHER -> << >>

\* ------------------------------------------------------------- the agents
\* Math.max(0, Math.min(1, confidence || 0.5)) of a numeric confidence: 0 is
\* falsy and becomes 0.5
ClampConfidence(confidence) ==
  Max(0, Min(10, IF confidence = 0 THEN 5 ELSE confidence))

\* the map(...) of EntityExtractorAgent.process
\* (metadata: entity.metadata || {} leaves a metadata object as it is)
NormalizeEntity(e) == [e EXCEPT !.confidence = ClampConfidence(e.confidence)]

EntityProcess(text) ==
  [i \in 1..Len(EntityReply(text)) |-> NormalizeEntity(EntityReply(text)[i])]

\* titles returned by getExistingPapers: the completed papers
ExistingPapers(ps) == {ps[i].title : i \in {j \in DOMAIN ps : ps[j].status = "completed"}}

\* the filter of RelationshipExtractorAgent.process: both ends are an entity
\* of this paper or the title of a completed paper, compared lower-cased
EndpointExists(endpoint, entities, existing) ==
  \/ \E i \in 1..Len(entities) : toLowerCase(entities[i].name) = toLowerCase(endpoint)
  \/ \E t \in existing : toLowerCase(t) = toLowerCase(endpoint)

KeepRelationship(rel, entities, existing) ==
  EndpointExists(rel.source, entities, existing) /\ EndpointExists(rel.target, entities, existing)

NormalizeRelationship(r) == [r EXCEPT !.confidence = ClampConfidence(r.confidence)]

RECURSIVE FilterMapRelationships(_, _, _)
FilterMapRelationships(rels, entities, existing) ==
  IF rels = <<>> THEN <<>>
  ELSE (IF KeepRelationship(Head(rels), entities, existing)
        THEN <<NormalizeRelationship(Head(rels))>> ELSE <<>>)
       \o FilterMapRelationships(Tail(rels), entities, existing)

RelationshipProcess(text, entities, existing) ==
  FilterMapRelationships(RelationshipReply(text), entities, existing)

\* ------------------------------------------------ AgentOrchestrator stage 3
\* a plausible slip: an equally confident later duplicate replaces the earlier
RECURSIVE ValidateFrom_Latest(_, _, _)
ValidateFrom_Latest(entities, i, seen) ==
  IF i > Len(entities) THEN seen
  ELSE LET e == entities[i]
           pos == {k \in 1..Len(seen) : normalizeName(seen[k].name) = normalizeName(e.name)}
       IN IF pos = {} THEN ValidateFrom_Latest(entities, i + 1, Append(seen, e))
          ELSE LET k == CHOOSE x \in pos : TRUE
               IN IF e.confidence >= seen[k].confidence
                  THEN ValidateFrom_Latest(entities, i + 1, [seen EXCEPT ![k] = e])
                  ELSE ValidateFrom_Latest(entities, i + 1, seen)

\* validateEntities: the Map keeps the first insertion position of a key and
\* replaces its value only by a strictly more confident candidate
RECURSIVE ValidateFrom(_, _, _)
ValidateFrom(entities, i, seen) ==
  IF i > Len(entities) THEN seen
  ELSE LET e == entities[i]
           pos == {k \in 1..Len(seen) : normalizeName(seen[k].name) = normalizeName(e.name)}
       IN IF pos = {} THEN ValidateFrom(entities, i + 1, Append(seen, e))
          ELSE LET k == CHOOSE x \in pos : TRUE
               IN IF e.confidence > seen[k].confidence
                  THEN ValidateFrom(entities, i + 1, [seen EXCEPT ![k] = e])
                  ELSE ValidateFrom(entities, i + 1, seen)

validateEntities(entities) == ValidateFrom(entities, 1, <<>>)

EntityNames(entities) == {normalizeName(entities[i].name) : i \in 1..Len(entities)}

RelationshipValid(rel, entities) ==
  normalizeName(rel.source) \in EntityNames(entities)
  \/ normalizeName(rel.target) \in EntityNames(entities)

RECURSIVE validateRelationships(_, _)
validateRelationships(rels, entities) ==
  IF rels = <<>> THEN <<>>
  ELSE (IF RelationshipValid(Head(rels), entities) THEN <<Head(rels)>> ELSE <<>>)
       \o validateRelationships(Tail(rels), entities)

\* the metadata object upsertEntities builds for an entity
EntityMetadata(e) ==
  DropUndefined(e.metadata @@ ("description" :> e.description) @@ ("context" :> e.context))

\* -------------------------------------------------------- PaperRepository
\* the metadata object create builds for the paper's node
PaperNodeMetadata(paperData) ==
  DropUndefined(("abstract" :> paperData.abstract) @@ ("authors" :> paperData.authors))

\* the row the unique index on arxiv_id finds (NULLs never conflict), 0 when none
FindPaperByArxiv(ps, arxiv) ==
  IF arxiv # Null /\ \E i \in DOMAIN ps : ps[i].arxiv_id = arxiv
  THEN CHOOSE i \in DOMAIN ps : ps[i].arxiv_id = arxiv
  ELSE 0

\* INSERT INTO papers of create: with no arxiv_id conflict the primary key
\* papers.id decides, and a second row for the same node is refused
InsertPaperThrows(ps, nodeId, paperData) ==
  FindPaperByArxiv(ps, OrNull(paperData.arxiv_id)) = 0 /\ nodeId \in DOMAIN ps

NewPaper(paperData) ==
  [title |-> paperData.title, abstract |-> OrNull(paperData.abstract),
   full_text |-> OrNull(paperData.full_text), arxiv_id |-> OrNull(paperData.arxiv_id),
   status |-> "pending"]

\* the table after the INSERT ... ON CONFLICT (arxiv_id) DO UPDATE of create
InsertPaper(ps, nodeId, paperData) ==
  LET hit == FindPaperByArxiv(ps, OrNull(paperData.arxiv_id))
  IN IF hit = 0 THEN (nodeId :> NewPaper(paperData)) @@ ps
     ELSE [ps EXCEPT ![hit].title = paperData.title,
                     ![hit].abstract = OrNull(paperData.abstract)]

\* RETURNING *: the id of the row written
InsertPaperId(ps, nodeId, paperData) ==
  LET hit == FindPaperByArxiv(ps, OrNull(paperData.arxiv_id))
  IN IF hit = 0 THEN nodeId ELSE hit

\* a plausible slip: the status is written only for a paper still pending
updateStatus_OnlyPending(ps, paperId, status) ==
  IF paperId \in DOMAIN ps /\ ps[paperId].status = "pending"
  THEN [ps EXCEPT ![paperId].status = status] ELSE ps

\* UPDATE papers SET processing_status = status WHERE id = paperId
updateStatus(ps, paperId, status) ==
  IF paperId \in DOMAIN ps THEN [ps EXCEPT ![paperId].status = status] ELSE ps

\* ------------------------------------------------- AgentOrchestrator.logExtraction
LogRecord(paperId, agent, type, success) ==
  [paper_id |-> paperId, agent_name |-> agent, extraction_type |-> type,
   success |-> success]

\* a plausible slip: no try / catch around the INSERT of logExtraction
LogThrows_Propagates(up) == ~up

\* whether logExtraction throws: its INSERT sits in a try whose catch only warns
LogThrows(up) == FALSE

\* the table after logExtraction: a failing INSERT is caught and only warned about
logExtraction(ls, up, rec) ==
  IF ~up THEN ls
  ELSE IF rec.paper_id \in DOMAIN ls
  THEN [ls EXCEPT ![rec.paper_id] = Append(@, rec)]
  ELSE (rec.paper_id :> <<rec>>) @@ ls

\* ------------------------------------------------------------ the inputs
PaperData(title, abstract, text, arxiv) ==
  [title |-> title, abstract |-> abstract, full_text |-> text, arxiv_id |-> arxiv,
   authors |-> "au"]

PaperA == PaperData(Title1, "abs1", "textA", "a1")
PaperB == PaperData(Title2, Undefined, "textB", "a2")
\* the paper "a1" again, under a changed title
PaperA2 == PaperData(Title3, "abs2", "textE", "a1")
\* a paper without arXiv id whose title canonicalises like PaperA's
PaperD == PaperData(<<"p", "1", "?">>, Undefined, "", Undefined)

\* a paper whose relationships name an edge type that is none, and the paper itself
PaperC == PaperData(TitleC, Undefined, "textC", "a3")

PaperPool == {PaperA, PaperB, PaperA2}

\* the batches handed to ingestPapers: distinct inputs, in any order
RECURSIVE SeqsUpTo(_, _)
SeqsUpTo(S, n) ==
  IF n = 0 THEN {<<>>}
  ELSE SeqsUpTo(S, n - 1)
       \cup {Append(q, x) : q \in {p \in SeqsUpTo(S, n - 1) : Len(p) = n - 1}, x \in S}

Batches == {b \in SeqsUpTo(PaperPool, MaxPapers) :
              Len(b) >= 1 /\ \A i, j \in 1..Len(b) : b[i] = b[j] => i = j}
BatchSizes == 1..MaxPapers

\* ----------------------------------------------------------------- runs
IdleRun ==
  [pc |-> "idle", paperData |-> NoCall, nodeId |-> 0, paper |-> 0, text |-> "",
   entities |-> <<>>, relationships |-> <<>>, entityMap |-> EmptyMeta,
   k |-> 0, sourceId |-> 0, targetId |-> 0, createdCount |-> 0, threw |-> "", trail |-> <<>>,
   api |-> "ingestPaper", writes |-> 0, caught |-> 0, existing |-> {}]

pipeVars == <<batch, batchSize, ctl, runs>>
vars == <<nodes, edges, papers, logs, logsUp, upserts, call, ops, other, batch, batchSize, ctl, runs>>

Settled(r) == runs[r].pc \in {"fulfilled", "rejected"}

\* the run moves on, the stage it enters being appended to its trail
Goto(run, pc) == [run EXCEPT !.pc = pc, !.trail = Append(run.trail, pc)]

\* a call the run makes without being suspended in it
Mark(run, step) == [run EXCEPT !.trail = Append(run.trail, step)]

\* createRelationships, one turn of its loop after the other. A name found
\* in the paper's own map is resolved without a database round trip, so the
\* run is next suspended at the first statement it sends: a lookup of the
\* source, a lookup of the target, or the INSERT of create.
RECURSIVE EnterRelationship(_)

\* after one relationship: the next one, or the return to the pipeline
AfterRelationship(run) ==
  IF run.k >= Len(run.relationships) THEN Goto(run, "setCompleted")
  ELSE EnterRelationship([run EXCEPT !.k = run.k + 1, !.sourceId = 0, !.targetId = 0])

\* a plausible slip: the relationship is skipped only when neither end resolves
SkipRelationship_Neither(sourceId, targetId) == sourceId = 0 /\ targetId = 0

\* if (!sourceId || !targetId) continue
SkipRelationship(sourceId, targetId) == sourceId = 0 \/ targetId = 0

\* the target is resolved to id: the skip test, then this.create
AfterTarget(run, id) ==
  IF SkipRelationship(run.sourceId, id) THEN AfterRelationship(run)
  ELSE Goto([run EXCEPT !.targetId = id], "createEdge")

EnterTarget(run) ==
  LET rel == run.relationships[run.k]
      normalized == normalizeName(rel.target)
  IN IF normalized \in DOMAIN run.entityMap
     THEN AfterTarget(run, run.entityMap[normalized])
     ELSE Goto(run, "resolveTarget")

EnterRelationship(run) ==
  LET rel == run.relationships[run.k]
      normalized == normalizeName(rel.source)
  IN IF normalized \in DOMAIN run.entityMap
     THEN EnterTarget([run EXCEPT !.sourceId = run.entityMap[normalized]])
     ELSE Goto(run, "resolveSource")

\* a plausible slip: the status is updated right after the upsert loop
AfterEntities_Completed(run) == Goto(run, "setCompleted")

\* upsertEntities has returned: createRelationships is called; with no
\* relationship its loop sends nothing and the status update follows
AfterEntities(run) ==
  IF run.relationships = <<>> THEN Goto(Mark(run, "createRelationships"), "setCompleted")
  ELSE EnterRelationship([Mark(run, "createRelationships") EXCEPT !.k = 1])

\* PaperRepository.create, first statement: nodeRepo.upsert('paper', title, ...)
CreateNode(r) ==
  /\ runs[r].pc = "createNode"
  /\ LET d == runs[r].paperData
         after == UpsertNodes(nodes, "paper", d.title, PaperNodeMetadata(d), 10)
         id == UpsertId(after, "paper", d.title)
     IN /\ nodes' = after
        /\ upserts' = upserts \cup {<<"paper", normalizeName(d.title), id>>}
        /\ runs' = [runs EXCEPT ![r] = Goto([runs[r] EXCEPT !.nodeId = id], "createRow")]
  /\ UNCHANGED <<other, logsUp, edges, papers, logs, call, ops, batch, batchSize, ctl>>

\* PaperRepository.create, second statement; a throw leaves ingestPaper
\* before its try block
CreateRow(r) ==
  /\ runs[r].pc = "createRow"
  /\ LET d == runs[r].paperData
         id == runs[r].nodeId
     IN IF InsertPaperThrows(papers, id, d)
        THEN /\ runs' = [runs EXCEPT ![r] = Goto([runs[r] EXCEPT !.threw = "create"], "rejected")]
             /\ UNCHANGED papers
        ELSE /\ papers' = InsertPaper(papers, id, d)
             /\ runs' = [runs EXCEPT ![r] =
                          Goto([runs[r] EXCEPT !.paper = InsertPaperId(papers, id, d)],
                               "setProcessing")]
  /\ UNCHANGED <<other, logsUp, nodes, edges, logs, upserts, call, ops, batch, batchSize, ctl>>

\* paperRepo.updateStatus(paper.id, 'processing'), then processPaper begins
SetProcessing(r) ==
  /\ runs[r].pc = "setProcessing"
  /\ papers' = updateStatus(papers, runs[r].paper, "processing")
  /\ runs' = [runs EXCEPT ![r] = Goto(runs[r], "entities")]
  /\ UNCHANGED <<other, logsUp, nodes, edges, logs, upserts, call, ops, batch, batchSize, ctl>>

\* processPaper's catch block has logged and re-thrown: ingestPaper and
\* reprocessPaper go to their own catch block (status 'failed'), while the
\* .catch of processPapers turns the rejection into null
Rethrow(run, threw) ==
  IF run.api = "processPaper" THEN Goto([run EXCEPT !.threw = threw], "rejected")
  ELSE Goto([run EXCEPT !.threw = threw], "setFailed")

\* processPaper, stage 1: the entity extractor and its log record; the run is
\* next suspended in the SELECT of getExistingPapers
EntityStage(r) ==
  /\ runs[r].pc = "entities"
  /\ \/ /\ logs' = logExtraction(logs, logsUp, LogRecord(runs[r].paper, "EntityExtractor", "entity", TRUE))
        /\ runs' = [runs EXCEPT ![r] =
                     IF LogThrows(logsUp)
                     THEN Rethrow(runs[r], "logExtraction")
                     ELSE [runs[r] EXCEPT !.entities = EntityProcess(runs[r].text),
                                          !.pc = "getExistingPapers"]]
     \/ /\ logs' = logExtraction(logs, logsUp, LogRecord(runs[r].paper, "Orchestrator", "full_pipeline", FALSE))
        /\ runs' = [runs EXCEPT ![r] =
                     Rethrow(runs[r], IF LogThrows(logsUp) THEN "logExtraction" ELSE "entities")]
  /\ UNCHANGED <<other, logsUp, nodes, edges, papers, upserts, call, ops, batch, batchSize, ctl>>

\* processPaper, stage 2, first await: getExistingPapers is answered with the
\* titles of the papers completed at that moment; the extractor is called next
GetExistingPapers(r) ==
  /\ runs[r].pc = "getExistingPapers"
  /\ runs' = [runs EXCEPT ![r] =
               Goto([runs[r] EXCEPT !.existing = ExistingPapers(papers)], "relationships")]
  /\ UNCHANGED <<other, logsUp, nodes, edges, papers, logs, upserts, call, ops, batch, batchSize, ctl>>

\* processPaper, stage 3 (no statement is sent). processPaper then returns the
\* analysis: to processPapers, or to ingestPaper / reprocessPaper, which run
\* on to the first upsert
ValidationStage(run) ==
  LET ents == validateEntities(run.entities)
      rels == validateRelationships(run.relationships, ents)
      validated == Mark([run EXCEPT !.entities = ents, !.relationships = rels, !.k = 1],
                        "validate")
  IN IF run.api = "processPaper" THEN Goto(validated, "fulfilled")
     ELSE IF ents = <<>> THEN AfterEntities(Mark(validated, "upsertEntities"))
     ELSE Goto(validated, "upsertEntities")

\* processPaper, stage 2, after the extractor has answered: the relationships
\* are filtered against the titles read before, the log record is written;
\* then stage 3
RelationshipStage(r) ==
  /\ runs[r].pc = "relationships"
  /\ \/ /\ logs' = logExtraction(logs, logsUp, LogRecord(runs[r].paper, "RelationshipExtractor", "relationship", TRUE))
        /\ runs' = [runs EXCEPT ![r] =
                     IF LogThrows(logsUp)
                     THEN Rethrow(runs[r], "logExtraction")
                     ELSE ValidationStage([runs[r] EXCEPT !.relationships =
                             RelationshipProcess(runs[r].text, runs[r].entities,
                                                 runs[r].existing)])]
     \/ /\ logs' = logExtraction(logs, logsUp, LogRecord(runs[r].paper, "Orchestrator", "full_pipeline", FALSE))
        /\ runs' = [runs EXCEPT ![r] =
                     Rethrow(runs[r], IF LogThrows(logsUp) THEN "logExtraction" ELSE "relationships")]
  /\ UNCHANGED <<other, logsUp, nodes, edges, papers, upserts, call, ops, batch, batchSize, ctl>>

\* one turn of the loop of NodeRepository.upsertEntities
UpsertEntity(r) ==
  /\ runs[r].pc = "upsertEntities"
  /\ LET e == runs[r].entities[runs[r].k]
     IN IF UpsertThrows(e.type, e.name)
        THEN /\ runs' = [runs EXCEPT ![r] =
                          Goto([runs[r] EXCEPT !.threw = "upsertEntities"], "setFailed")]
             /\ UNCHANGED <<nodes, upserts>>
        ELSE LET after == UpsertNodes(nodes, e.type, e.name, EntityMetadata(e), e.confidence)
                 id == UpsertId(after, e.type, e.name)
                 run == [runs[r] EXCEPT
                           !.entityMap = (normalizeName(e.name) :> id) @@ runs[r].entityMap,
                           !.writes = @ + 1]
             IN /\ nodes' = after
                /\ upserts' = upserts \cup {<<e.type, normalizeName(e.name), id>>}
                /\ runs' = [runs EXCEPT ![r] =
                             IF run.k >= Len(run.entities) THEN AfterEntities(run)
                             ELSE [run EXCEPT !.k = run.k + 1]]
  /\ UNCHANGED <<other, logsUp, edges, papers, logs, call, ops, batch, batchSize, ctl>>

\* createRelationships: resolveEntityId(rel.source, ...) asking the database
ResolveSource(r) ==
  /\ runs[r].pc = "resolveSource"
  /\ LET rel == runs[r].relationships[runs[r].k]
     IN \E id \in ResolveEntityId(nodes, rel.source, runs[r].paper, runs[r].entityMap) :
          runs' = [runs EXCEPT ![r] = EnterTarget([runs[r] EXCEPT !.sourceId = id])]
  /\ UNCHANGED <<other, logsUp, nodes, edges, papers, logs, upserts, call, ops, batch, batchSize, ctl>>

\* createRelationships: resolveEntityId(rel.target, ...) asking the database,
\* and the skip test
ResolveTarget(r) ==
  /\ runs[r].pc = "resolveTarget"
  /\ LET rel == runs[r].relationships[runs[r].k]
     IN \E id \in ResolveEntityId(nodes, rel.target, runs[r].paper, runs[r].entityMap) :
          runs' = [runs EXCEPT ![r] = AfterTarget(runs[r], id)]
  /\ UNCHANGED <<other, logsUp, nodes, edges, papers, logs, upserts, call, ops, batch, batchSize, ctl>>

\* a plausible slip: this.create(...) outside the try, its error leaves
\* createRelationships and reaches the catch block of the pipeline
CreateEdge_Abort(r) ==
  /\ runs[r].pc = "createEdge"
  /\ LET rel == runs[r].relationships[runs[r].k]
         s == runs[r].sourceId
         t == runs[r].targetId
     IN IF CreateThrows(nodes, rel.type, s, t)
        THEN /\ runs' = [runs EXCEPT ![r] =
                          Goto([runs[r] EXCEPT !.threw = "createRelationships"],
                               "setFailed")]
             /\ UNCHANGED edges
        ELSE /\ edges' = CreateEdges(edges, rel.type, s, t, rel.description, rel.evidence,
                                     rel.confidence, rel.metadata)
             /\ runs' = [runs EXCEPT ![r] =
                          AfterRelationship([runs[r] EXCEPT !.createdCount = @ + 1,
                                                            !.writes = @ + 1])]
  /\ UNCHANGED <<other, logsUp, nodes, papers, logs, upserts, call, ops, batch, batchSize, ctl>>

\* createRelationships: this.create(...) inside the try of the loop
CreateEdge(r) ==
  /\ runs[r].pc = "createEdge"
  /\ LET rel == runs[r].relationships[runs[r].k]
         s == runs[r].sourceId
         t == runs[r].targetId
     IN IF CreateThrows(nodes, rel.type, s, t)
        THEN /\ runs' = [runs EXCEPT ![r] =
                          AfterRelationship([runs[r] EXCEPT !.caught = @ + 1])]
             /\ UNCHANGED edges
        ELSE /\ edges' = CreateEdges(edges, rel.type, s, t, rel.description, rel.evidence,
                                     rel.confidence, rel.metadata)
             /\ runs' = [runs EXCEPT ![r] =
                          AfterRelationship([runs[r] EXCEPT !.createdCount = @ + 1,
                                                            !.writes = @ + 1])]
  /\ UNCHANGED <<other, logsUp, nodes, papers, logs, upserts, call, ops, batch, batchSize, ctl>>

\* updateStatus(paper.id, 'completed') and the return
SetCompleted(r) ==
  /\ runs[r].pc = "setCompleted"
  /\ papers' = updateStatus(papers, runs[r].paper, "completed")
  /\ runs' = [runs EXCEPT ![r] = Goto(runs[r], "fulfilled")]
  /\ UNCHANGED <<other, logsUp, nodes, edges, logs, upserts, call, ops, batch, batchSize, ctl>>

\* the catch block: updateStatus(paper.id, 'failed') and the re-throw
SetFailed(r) ==
  /\ runs[r].pc = "setFailed"
  /\ papers' = updateStatus(papers, runs[r].paper, "failed")
  /\ runs' = [runs EXCEPT ![r] = Goto(runs[r], "rejected")]
  /\ UNCHANGED <<other, logsUp, nodes, edges, logs, upserts, call, ops, batch, batchSize, ctl>>

\* ------------------------------------------- IngestionPipeline.ingestPapers
\* Array.prototype.slice(i, i + batchSize) as the (1-based) positions it takes
SliceStart(i, len) == IF i < 0 THEN Max(len + i, 0) ELSE Min(i, len)
\* a plausible slip: the last position of each chunk is left out
Slice_Short(i, size, len) == (SliceStart(i, len) + 1)..(SliceStart(i + size, len) - 1)

Slice(i, size, len) == (SliceStart(i, len) + 1)..SliceStart(i + size, len)

\* the loop test, and the chunk's ingestPaper calls started under Promise.allSettled
CtlStartChunk ==
  /\ ctl.pc = "loop"
  /\ ctl.i < Len(batch)
  /\ LET chunk == Slice(ctl.i, batchSize, Len(batch))
         lo == SliceStart(ctl.i, Len(batch))
         positions == [n \in 1..Cardinality(chunk) |-> lo + n]
     IN /\ ctl' = [ctl EXCEPT !.pc = "await", !.chunk = chunk,
                              !.started = @ \o positions]
        /\ runs' = [r \in DOMAIN runs |->
                      IF r \in chunk
                      THEN Goto([IdleRun EXCEPT !.paperData = batch[r],
                                                !.text = batch[r].full_text], "createNode")
                      ELSE runs[r]]
  /\ UNCHANGED <<other, logsUp, nodes, edges, papers, logs, upserts, call, ops, batch, batchSize>>

\* a plausible slip: the controller goes on as soon as one run of the chunk
\* has settled (Promise.race in place of Promise.allSettled)
CtlSettle_First ==
  /\ ctl.pc = "await"
  /\ \E r \in ctl.chunk : Settled(r)
  /\ LET ok == Cardinality({r \in ctl.chunk : runs[r].pc = "fulfilled"})
         ko == Cardinality({r \in ctl.chunk : runs[r].pc = "rejected"})
         counted == [ctl EXCEPT !.successCount = @ + ok, !.failCount = @ + ko]
     IN ctl' = IF ctl.i + batchSize < Len(batch)
               THEN [counted EXCEPT !.pc = "delay"]
               ELSE [counted EXCEPT !.pc = "loop", !.i = @ + batchSize]
  /\ UNCHANGED <<other, logsUp, nodes, edges, papers, logs, upserts, call, ops, batch, batchSize, runs>>

\* a plausible slip: the delay is taken after every chunk, the last included
CtlSettle_AlwaysDelay ==
  /\ ctl.pc = "await"
  /\ \A r \in ctl.chunk : Settled(r)
  /\ LET ok == Cardinality({r \in ctl.chunk : runs[r].pc = "fulfilled"})
         ko == Cardinality({r \in ctl.chunk : runs[r].pc = "rejected"})
     IN ctl' = [ctl EXCEPT !.successCount = @ + ok, !.failCount = @ + ko, !.pc = "delay"]
  /\ UNCHANGED <<other, logsUp, nodes, edges, papers, logs, upserts, call, ops, batch, batchSize, runs>>

\* allSettled resolves: the results are counted; the delay when a chunk follows
CtlSettle ==
  /\ ctl.pc = "await"
  /\ \A r \in ctl.chunk : Settled(r)
  /\ LET ok == Cardinality({r \in ctl.chunk : runs[r].pc = "fulfilled"})
         ko == Cardinality({r \in ctl.chunk : runs[r].pc = "rejected"})
         counted == [ctl EXCEPT !.successCount = @ + ok, !.failCount = @ + ko]
     IN ctl' = IF ctl.i + batchSize < Len(batch)
               THEN [counted EXCEPT !.pc = "delay"]
               ELSE [counted EXCEPT !.pc = "loop", !.i = @ + batchSize]
  /\ UNCHANGED <<other, logsUp, nodes, edges, papers, logs, upserts, call, ops, batch, batchSize, runs>>

\* the 2000 ms timer fires
CtlDelay ==
  /\ ctl.pc = "delay"
  /\ ctl' = [ctl EXCEPT !.pc = "loop", !.i = @ + batchSize, !.waitedAt = @ \cup {ctl.i}]
  /\ UNCHANGED <<other, logsUp, nodes, edges, papers, logs, upserts, call, ops, batch, batchSize, runs>>

\* the loop test fails: the counts are written to the console and
\* ingestPapers, a Promise<void>, resolves with undefined
CtlReturn ==
  /\ ctl.pc = "loop"
  /\ ctl.i >= Len(batch)
  /\ ctl' = [ctl EXCEPT !.pc = "done", !.returned = Undefined]
  /\ UNCHANGED <<other, logsUp, nodes, edges, papers, logs, upserts, call, ops, batch, batchSize, runs>>

\* ----------------------------------------- IngestionPipeline.reprocessPaper
\* a plausible slip: the test of paper.full_text is left out
ReprocessBegin_NoTextGuard(run, ps, paperId) ==
  IF paperId \notin DOMAIN ps
  THEN Goto([run EXCEPT !.threw = "notFound"], "rejected")
  ELSE Goto([run EXCEPT !.paper = paperId, !.nodeId = paperId,
                        !.text = ps[paperId].full_text], "setProcessing")

\* findById and the two guards; then updateStatus(paper.id, 'processing')
ReprocessBegin(run, ps, paperId) ==
  IF paperId \notin DOMAIN ps
  THEN Goto([run EXCEPT !.threw = "notFound"], "rejected")
  ELSE IF ps[paperId].full_text = Null
  THEN Goto([run EXCEPT !.threw = "noFullText", !.paper = paperId], "rejected")
  ELSE Goto([run EXCEPT !.paper = paperId, !.nodeId = paperId,
                        !.text = ps[paperId].full_text], "setProcessing")

\* =========================================================================
\* Spec: ingestPapers(batch, batchSize) on an initially empty database
\* =========================================================================
\* waitedAt: the values of the loop index at which the timer was awaited
InitCtl ==
  [pc |-> "loop", i |-> 0, chunk |-> {}, successCount |-> 0, failCount |-> 0, waitedAt |-> {},
   started |-> <<>>, returned |-> "pending", results |-> <<>>]

Init ==
  /\ InitTables
  /\ logsUp = TRUE
  /\ call = NoCall
  /\ ops = 0
  /\ other = NoCall
  /\ batch \in Batches
  /\ batchSize \in BatchSizes
  /\ ctl = InitCtl
  /\ runs = [r \in 0..Len(batch) |-> IdleRun]

Next ==
  \/ CtlStartChunk
  \/ CtlSettle
  \/ CtlDelay
  \/ CtlReturn
  \/ \E r \in DOMAIN runs : CreateNode(r)
  \/ \E r \in DOMAIN runs : CreateRow(r)
  \/ \E r \in DOMAIN runs : SetProcessing(r)
  \/ \E r \in DOMAIN runs : EntityStage(r)
  \/ \E r \in DOMAIN runs : GetExistingPapers(r)
  \/ \E r \in DOMAIN runs : RelationshipStage(r)
  \/ \E r \in DOMAIN runs : UpsertEntity(r)
  \/ \E r \in DOMAIN runs : ResolveSource(r)
  \/ \E r \in DOMAIN runs : ResolveTarget(r)
  \/ \E r \in DOMAIN runs : CreateEdge(r)
  \/ \E r \in DOMAIN runs : SetCompleted(r)
  \/ \E r \in DOMAIN runs : SetFailed(r)

Spec == Init /\ [][Next]_vars

\* ingestPapers with a batch size of 0 as well (with a negative one the index
\* falls without bound, which no finite exploration follows). The event loop runs every
\* continuation of the controller that is ready (a settled chunk, a fired
\* timer), and each ingestPaper call that was started runs to its end.
AnyBatchSizes == {0} \cup BatchSizes

InitSizes ==
  /\ InitTables
  /\ logsUp = TRUE
  /\ call = NoCall
  /\ ops = 0
  /\ other = NoCall
  /\ batch \in Batches
  /\ batchSize \in AnyBatchSizes
  /\ ctl = InitCtl
  /\ runs = [r \in 0..Len(batch) |-> IdleRun]

EachIngestPaperTerminates ==
  \A r \in 1..MaxPapers :
    []<>(r \in DOMAIN runs => runs[r].pc \in {"idle", "fulfilled", "rejected"})

SpecSizes ==
  /\ InitSizes /\ [][Next]_vars
  /\ WF_vars(CtlStartChunk \/ CtlSettle \/ CtlDelay \/ CtlReturn)
  /\ EachIngestPaperTerminates

\* =========================================================================
\* SpecPaper: one client calling ingestPaper and reprocessPaper, one call
\* after the other (run 0 is the call in progress)
\* =========================================================================
CallPool == {PaperA, PaperB, PaperA2, PaperC, PaperD}

\* what the client has seen when a call has settled: how the call ended and
\* the sizes of the nodes and edges tables (getStats)
PreviousCall(run) ==
  IF run.pc = "idle" THEN NoCall
  ELSE [op |-> "previous", api |-> run.api, paper |-> run.paper, text |-> run.text,
        paperData |-> run.paperData, pc |-> run.pc, threw |-> run.threw,
        nodeCount |-> Len(nodes), edgeCount |-> Len(edges),
        up |-> logsUp, entities |-> run.entities, relationships |-> run.relationships,
        createdCount |-> run.createdCount,
        status |-> IF run.paper \in DOMAIN papers THEN papers[run.paper].status ELSE Null,
        nodes |-> nodes, edges |-> edges, papers |-> papers, logs |-> logs]

CallIngestPaper ==
  /\ ops < MaxCalls
  /\ runs[0].pc \in {"idle", "fulfilled", "rejected"}
  /\ \E d \in CallPool, up \in BOOLEAN :
       /\ logsUp' = up
       /\ runs' = [runs EXCEPT ![0] =
                    Goto([IdleRun EXCEPT !.paperData = d, !.text = d.full_text,
                                         !.api = "ingestPaper"], "createNode")]
  /\ ops' = ops + 1
  /\ call' = PreviousCall(runs[0])
  /\ UNCHANGED <<other, nodes, edges, papers, logs, upserts, batch, batchSize, ctl>>

CallReprocessPaper ==
  /\ ops < MaxCalls
  /\ runs[0].pc \in {"idle", "fulfilled", "rejected"}
  /\ \E id \in (1..Len(nodes)) \cup {Len(nodes) + 1}, up \in BOOLEAN :
       /\ logsUp' = up
       /\ runs' = [runs EXCEPT ![0] =
                    ReprocessBegin([IdleRun EXCEPT !.api = "reprocessPaper"], papers, id)]
  /\ ops' = ops + 1
  /\ call' = PreviousCall(runs[0])
  /\ UNCHANGED <<other, nodes, edges, papers, logs, upserts, batch, batchSize, ctl>>

InitPaper ==
  /\ InitTables
  /\ logsUp = TRUE
  /\ call = NoCall
  /\ ops = 0
  /\ other = NoCall
  /\ batch = <<>>
  /\ batchSize = 1
  /\ ctl = [InitCtl EXCEPT !.pc = "unused"]
  /\ runs = [r \in {0} |-> IdleRun]

NextPaper ==
  \/ CallIngestPaper
  \/ CallReprocessPaper
  \/ CreateNode(0)
  \/ CreateRow(0)
  \/ SetProcessing(0)
  \/ EntityStage(0)
  \/ GetExistingPapers(0)
  \/ RelationshipStage(0)
  \/ UpsertEntity(0)
  \/ ResolveSource(0)
  \/ ResolveTarget(0)
  \/ CreateEdge(0)
  \/ SetCompleted(0)
  \/ SetFailed(0)

SpecPaper == InitPaper /\ [][NextPaper]_vars

\* =========================================================================
\* SpecStore (its actions are defined with NodeRepository above)
\* =========================================================================
InitIdle ==
  /\ InitTables
  /\ logsUp = TRUE
  /\ call = NoCall
  /\ ops = 0
  /\ other = NoCall
  /\ batch = <<>>
  /\ batchSize = 1
  /\ ctl = [InitCtl EXCEPT !.pc = "unused"]
  /\ runs = [r \in {0} |-> IdleRun]

NextStore ==
  \/ StoreUpsertValid
  \/ StoreUpsertOtherType
  \/ StoreUpsertBadType

SpecStore == InitIdle /\ [][NextStore]_vars

\* =========================================================================
\* SpecEdges: one client calling EdgeRepository.create and
\* EdgeRepository.createRelationships, the nodes X and Y being upserted at
\* any time
\* =========================================================================
EdgeEndNames == {<<"X">>, <<"Y">>}
\* (description, evidence) pairs passed to create
EdgeTexts == {<<Undefined, "e1">>, <<"d1", Undefined>>, <<"d2", "">>}
EdgeConfs == {5, 9}
EdgeMetas == {EmptyMeta, "k" :> "v1"}

EdgeSetupNode ==
  /\ \E name \in EdgeEndNames :
       /\ nodes' = UpsertNodes(nodes, "technique", name, EmptyMeta, 6)
       /\ upserts' = upserts \cup {<<"technique", normalizeName(name),
                                     UpsertId(nodes', "technique", name)>>}
  /\ UNCHANGED <<edges, papers, logs, logsUp, call, ops, other, batch, batchSize, ctl, runs>>

\* EdgeRepository.create(type, sourceId, targetId, description, evidence, confidence, 'system', metadata)
EdgeCreate(type, s, t, description, evidence, confidence, metadata) ==
  /\ ops' = ops + 1
  /\ LET before == FindEdgeId(edges, type, s, t)
         args == [op |-> "create", type |-> type, source_id |-> s, target_id |-> t,
                  description |-> description, evidence |-> evidence,
                  confidence |-> confidence, metadata |-> metadata,
                  hit |-> before # 0,
                  old |-> IF before # 0 THEN edges[before] ELSE NoCall,
                  edgesBefore |-> edges, nodeCount |-> Len(nodes)]
     IN IF CreateThrows(nodes, type, s, t)
        THEN /\ call' = args @@ [threw |-> TRUE, id |-> 0]
             /\ UNCHANGED edges
        ELSE /\ edges' = CreateEdges(edges, type, s, t, description, evidence,
                                     confidence, metadata)
             /\ call' = args @@ [threw |-> FALSE, id |-> FindEdgeId(edges', type, s, t)]
  /\ UNCHANGED <<nodes, papers, logs, logsUp, upserts, other, batch, batchSize, ctl, runs>>

EdgeCreateValid ==
  /\ ops < MaxEdgeOps
  /\ \E st \in {<<1, 2>>, <<2, 1>>, <<1, 1>>}, tx \in EdgeTexts,
        confidence \in EdgeConfs, metadata \in EdgeMetas :
       EdgeCreate("applies", st[1], st[2], tx[1], tx[2], confidence, metadata)

\* a target id that is no node's
EdgeCreateDangling ==
  /\ ops < MaxEdgeOps
  /\ EdgeCreate("applies", 1, Len(nodes) + 1, "d1", "e1", 9, EmptyMeta)

\* a type that is no edge_type
EdgeCreateBadType ==
  /\ ops < MaxEdgeOps
  /\ EdgeCreate("mentions", 1, 1, "d1", "e1", 9, EmptyMeta)

\* relationships handed to createRelationships; <<"N">> names no node
EdgeRelationships ==
  { RelationshipCandidate(<<"X">>, <<"Y">>, "applies", "e1", 5),
    RelationshipCandidate(<<"X">>, <<"N">>, "applies", "e1", 5),
    RelationshipCandidate(<<"N">>, <<"y">>, "applies", "e1", 5),
    RelationshipCandidate(<<"X">>, <<"Y">>, "mentions", "e1", 5) }

\* the entityNameToIdMap arguments: empty, or X under its canonical name
EdgeMaps(ns) ==
  {EmptyMeta} \cup
  (IF FindNodeId(ns, "technique", <<"x">>) # 0
   THEN {<<"x">> :> FindNodeId(ns, "technique", <<"x">>)} ELSE {})

\* EdgeRepository.createRelationships([rel], paperId, map) is called: other
\* holds the call in flight, suspended in the lookup of the source
EdgeCreateRelationships ==
  /\ ops < MaxEdgeOps
  /\ other = NoCall
  /\ ops' = ops + 1
  /\ \E rel \in EdgeRelationships, map \in EdgeMaps(nodes) :
       other' = [op |-> "createRelationships", pc |-> "resolveSource", rel |-> rel,
                 map |-> map, sourceId |-> 0, targetId |-> 0]
  /\ UNCHANGED <<nodes, edges, papers, logs, logsUp, upserts, call, batch, batchSize, ctl, runs>>

\* resolveEntityId(rel.source, paperId, map) is answered from the nodes stored
\* at that moment
EdgeResolveSource ==
  /\ other.op = "createRelationships" /\ other.pc = "resolveSource"
  /\ \E s \in ResolveEntityId(nodes, other.rel.source, 1, other.map) :
       other' = [other EXCEPT !.sourceId = s, !.pc = "resolveTarget"]
  /\ UNCHANGED <<nodes, edges, papers, logs, logsUp, upserts, call, ops, batch, batchSize, ctl, runs>>

\* resolveEntityId(rel.target, paperId, map), and the skip test: a skipped
\* relationship ends the call with 0 created
EdgeResolveTarget ==
  /\ other.op = "createRelationships" /\ other.pc = "resolveTarget"
  /\ \E t \in ResolveEntityId(nodes, other.rel.target, 1, other.map) :
       IF SkipRelationship(other.sourceId, t)
       THEN /\ call' = [op |-> "createRelationships", rel |-> other.rel,
                        sourceId |-> other.sourceId, targetId |-> t,
                        edgesBefore |-> edges, skipped |-> TRUE, threw |-> FALSE,
                        createdCount |-> 0]
            /\ other' = NoCall
       ELSE /\ other' = [other EXCEPT !.targetId = t, !.pc = "create"]
            /\ UNCHANGED call
  /\ UNCHANGED <<nodes, edges, papers, logs, logsUp, upserts, ops, batch, batchSize, ctl, runs>>

\* this.create(...) inside the try of the loop, and the return of the count
EdgeCreateResolved ==
  /\ other.op = "createRelationships" /\ other.pc = "create"
  /\ LET rel == other.rel
         s == other.sourceId
         t == other.targetId
         args == [op |-> "createRelationships", rel |-> rel, sourceId |-> s,
                  targetId |-> t, edgesBefore |-> edges, skipped |-> FALSE]
     IN IF CreateThrows(nodes, rel.type, s, t)
        THEN /\ call' = args @@ [threw |-> TRUE, createdCount |-> 0]
             /\ UNCHANGED edges
        ELSE /\ edges' = CreateEdges(edges, rel.type, s, t, rel.description,
                                     rel.evidence, rel.confidence, rel.metadata)
             /\ call' = args @@ [threw |-> FALSE, createdCount |-> 1]
  /\ other' = NoCall
  /\ UNCHANGED <<nodes, papers, logs, logsUp, upserts, ops, batch, batchSize, ctl, runs>>

NextEdges ==
  \/ EdgeSetupNode
  \/ EdgeCreateValid
  \/ EdgeCreateDangling
  \/ EdgeCreateBadType
  \/ EdgeCreateRelationships
  \/ EdgeResolveSource
  \/ EdgeResolveTarget
  \/ EdgeCreateResolved

SpecEdges == InitIdle /\ [][NextEdges]_vars

\* =========================================================================
\* SpecConv: two calls on one key, applied in both orders to two copies of
\* the tables, and the first call applied twice to a third copy
\* =========================================================================
\* arguments of NodeRepository.upsert('technique', 'X', metadata, 'system', confidence)
ConvUpserts == [metadata : StoreMetas, confidence : StoreConfs]
\* arguments of EdgeRepository.create('applies', 1, 2, description, evidence, confidence, 'system', metadata)
ConvCreates == [description : {Undefined, "d1", "d2"}, evidence : {Undefined, "e1"},
                confidence : EdgeConfs, metadata : EdgeMetas]

ConvTables(ns, es) == [nodes |-> ns, edges |-> es]

ConvUpsert(ns, u) == UpsertNodes(ns, "technique", <<"X">>, u.metadata, u.confidence)

ConvCreate(es, c) ==
  CreateEdges(es, "applies", 1, 2, c.description, c.evidence, c.confidence, c.metadata)

InitConv ==
  /\ InitTables
  /\ logsUp = TRUE
  /\ call = NoCall
  /\ ops = 0
  /\ \/ \E u1 \in ConvUpserts, u2 \in ConvUpserts :
          other = [kind |-> "node", first |-> u1, second |-> u2,
                   swapped |-> ConvTables(<<>>, <<>>),
                   once |-> ConvTables(<<>>, <<>>), twice |-> ConvTables(<<>>, <<>>)]
     \/ \E c1 \in ConvCreates, c2 \in ConvCreates :
          other = [kind |-> "edge", first |-> c1, second |-> c2,
                   swapped |-> ConvTables(<<>>, <<>>),
                   once |-> ConvTables(<<>>, <<>>), twice |-> ConvTables(<<>>, <<>>)]
  /\ batch = <<>>
  /\ batchSize = 1
  /\ ctl = [InitCtl EXCEPT !.pc = "unused"]
  /\ runs = [r \in {0} |-> IdleRun]

\* the first call reaches each copy: u1 here, u2 on the swapped copy
ConvNodeFirst ==
  /\ other.kind = "node" /\ ops = 0
  /\ ops' = 1
  /\ nodes' = ConvUpsert(nodes, other.first)
  /\ other' = [other EXCEPT
                 !.swapped.nodes = ConvUpsert(other.swapped.nodes, other.second),
                 !.once.nodes = ConvUpsert(other.once.nodes, other.first),
                 !.twice.nodes = ConvUpsert(other.twice.nodes, other.first)]
  /\ UNCHANGED <<edges, papers, logs, logsUp, upserts, call, batch, batchSize, ctl, runs>>

\* the second call: u2 here, u1 on the swapped copy, u1 again on the third
ConvNodeSecond ==
  /\ other.kind = "node" /\ ops = 1
  /\ ops' = 2
  /\ nodes' = ConvUpsert(nodes, other.second)
  /\ other' = [other EXCEPT
                 !.swapped.nodes = ConvUpsert(other.swapped.nodes, other.first),
                 !.twice.nodes = ConvUpsert(other.twice.nodes, other.first)]
  /\ UNCHANGED <<edges, papers, logs, logsUp, upserts, call, batch, batchSize, ctl, runs>>

\* the endpoints X and Y of the edge are upserted into every copy first
ConvEdgeSetup ==
  /\ other.kind = "edge" /\ ops = 0 /\ Len(nodes) < 2
  /\ LET name == IF Len(nodes) = 0 THEN <<"X">> ELSE <<"Y">>
         ns == UpsertNodes(nodes, "technique", name, EmptyMeta, 6)
     IN /\ nodes' = ns
        /\ other' = [other EXCEPT !.swapped.nodes = ns, !.once.nodes = ns,
                                  !.twice.nodes = ns]
  /\ UNCHANGED <<edges, papers, logs, logsUp, upserts, call, ops, batch, batchSize, ctl, runs>>

ConvEdgeFirst ==
  /\ other.kind = "edge" /\ ops = 0
  /\ ~CreateThrows(nodes, "applies", 1, 2)
  /\ ops' = 1
  /\ edges' = ConvCreate(edges, other.first)
  /\ other' = [other EXCEPT
                 !.swapped.edges = ConvCreate(other.swapped.edges, other.second),
                 !.once.edges = ConvCreate(other.once.edges, other.first),
                 !.twice.edges = ConvCreate(other.twice.edges, other.first)]
  /\ UNCHANGED <<nodes, papers, logs, logsUp, upserts, call, batch, batchSize, ctl, runs>>

ConvEdgeSecond ==
  /\ other.kind = "edge" /\ ops = 1
  /\ ops' = 2
  /\ edges' = ConvCreate(edges, other.second)
  /\ other' = [other EXCEPT
                 !.swapped.edges = ConvCreate(other.swapped.edges, other.first),
                 !.twice.edges = ConvCreate(other.twice.edges, other.first)]
  /\ UNCHANGED <<nodes, papers, logs, logsUp, upserts, call, batch, batchSize, ctl, runs>>

NextConv ==
  \/ ConvNodeFirst
  \/ ConvNodeSecond
  \/ ConvEdgeSetup
  \/ ConvEdgeFirst
  \/ ConvEdgeSecond

SpecConv == InitConv /\ [][NextConv]_vars

\* ------------------------------------------------- normalizeName, alone
\* the characters of the names: a letter, a digit, the two kinds of
\* whitespace, a special character, the hyphen and the underscore
NameChars == {"A", "1", " ", "\t", "!", "-", "_"}

NameInputs == SeqsUpTo(NameChars, MaxNameLen)

InitNames ==
  /\ InitTables
  /\ logsUp = TRUE
  /\ call = NoCall
  /\ ops = 0
  /\ \E name \in NameInputs :
       other = [kind |-> "name", step |-> 0, input |-> name, once |-> <<>>, twice |-> <<>>]
  /\ batch = <<>>
  /\ batchSize = 1
  /\ ctl = [InitCtl EXCEPT !.pc = "unused"]
  /\ runs = [r \in {0} |-> IdleRun]

\* normalizeName(name)
NormalizeOnce ==
  /\ other.kind = "name" /\ other.step = 0
  /\ other' = [other EXCEPT !.step = 1, !.once = normalizeName(other.input)]
  /\ UNCHANGED <<nodes, edges, papers, logs, logsUp, upserts, call, ops, batch, batchSize,
                 ctl, runs>>

\* normalizeName of what normalizeName returned
NormalizeAgain ==
  /\ other.kind = "name" /\ other.step = 1
  /\ other' = [other EXCEPT !.step = 2, !.twice = normalizeName(other.once)]
  /\ UNCHANGED <<nodes, edges, papers, logs, logsUp, upserts, call, ops, batch, batchSize,
                 ctl, runs>>

NextNames ==
  \/ NormalizeOnce
  \/ NormalizeAgain

SpecNames == InitNames /\ [][NextNames]_vars

\* ------------------------- the repositories and the schema helper, directly
\* A client calls NodeRepository.upsert and EdgeRepository.create with any
\* number as the confidence, and the SQL function upsert_node of the schema.
\* other records, for every row, the confidences written to it.

\* trim(name) of SQL: the default characters are spaces only
RECURSIVE SqlTrimLeft(_)
SqlTrimLeft(s) ==
  IF s # <<>> /\ Head(s) = " " THEN SqlTrimLeft(Tail(s)) ELSE s

RECURSIVE SqlTrimRight(_)
SqlTrimRight(s) ==
  IF s # <<>> /\ s[Len(s)] = " " THEN SqlTrimRight(SubSeq(s, 1, Len(s) - 1)) ELSE s

\* the SQL function normalize_name:
\* lower(regexp_replace(trim(name), '\s+', ' ', 'g'))
normalize_name(name) == toLowerCase(CollapseSpaces(SqlTrimRight(SqlTrimLeft(name))))

\* the table after the SQL function upsert_node(p_type, p_name, p_metadata):
\* the inserted row takes the column default 1.0 as its confidence, the
\* conflict arm merges the metadata only
upsert_node(ns, p_type, p_name, p_metadata) ==
  LET v_canonical_name == normalize_name(p_name)
      id == FindNodeId(ns, p_type, v_canonical_name)
  IN IF id = 0
     THEN Append(ns, [type |-> p_type, name |-> p_name,
                      canonical_name |-> v_canonical_name,
                      metadata |-> p_metadata, confidence |-> 10])
     ELSE [ns EXCEPT ![id].metadata = JsonbConcat(ns[id].metadata, p_metadata)]

\* the table after the SQL function create_edge(p_type, p_source_id,
\* p_target_id, p_description, p_evidence, p_confidence) when its INSERT is
\* accepted: the texts are stored as given (an empty text stays empty), the
\* metadata of a new row is the column default {}, and the conflict arm
\* leaves the metadata alone
create_edge(es, p_type, p_source_id, p_target_id, p_description, p_evidence, p_confidence) ==
  LET id == FindEdgeId(es, p_type, p_source_id, p_target_id)
  IN IF id = 0
     THEN Append(es, [type |-> p_type, source_id |-> p_source_id,
                      target_id |-> p_target_id, description |-> p_description,
                      evidence |-> p_evidence, confidence |-> p_confidence,
                      metadata |-> EmptyMeta])
     ELSE [es EXCEPT ![id].description = Coalesce(p_description, es[id].description),
                     ![id].evidence = Coalesce(p_evidence, es[id].evidence),
                     ![id].confidence = Max(es[id].confidence, p_confidence)]

\* confidences in tenths: -0.2, 0.5 and 1.2
DirectConfs == {0 - 2, 5, 12}

DirectMetas == {EmptyMeta, "description" :> "d1"}

DirectNames == {<<"X">>, <<"x", "!">>, <<"\t", "X">>}

\* the confidences written to row id, with confidence added
Written(history, id, confidence) ==
  IF id > Len(history) THEN Append(history, {confidence})
  ELSE [history EXCEPT ![id] = @ \cup {confidence}]

InitDirect ==
  /\ InitTables
  /\ logsUp = TRUE
  /\ call = NoCall
  /\ ops = 0
  /\ other = [kind |-> "written", node |-> <<>>, edge |-> <<>>]
  /\ batch = <<>>
  /\ batchSize = 1
  /\ ctl = [InitCtl EXCEPT !.pc = "unused"]
  /\ runs = [r \in {0} |-> IdleRun]

\* NodeRepository.upsert('technique', name, metadata, 'system', confidence)
DirectUpsert ==
  /\ ops < MaxOps
  /\ \E name \in DirectNames, metadata \in DirectMetas, confidence \in DirectConfs :
       LET before == FindNodeId(nodes, "technique", normalizeName(name))
           after == UpsertNodes(nodes, "technique", name, metadata, confidence)
           id == UpsertId(after, "technique", name)
       IN /\ nodes' = after
          /\ upserts' = upserts \cup {<<"technique", normalizeName(name), id>>}
          /\ other' = [other EXCEPT !.node = Written(other.node, id, confidence)]
          /\ call' = [op |-> "upsert", threw |-> FALSE, type |-> "technique",
                      name |-> name, metadata |-> metadata, confidence |-> confidence,
                      hit |-> before # 0,
                      old |-> IF before # 0 THEN nodes[before] ELSE NoCall,
                      id |-> id]
  /\ ops' = ops + 1
  /\ UNCHANGED <<edges, papers, logs, logsUp, batch, batchSize, ctl, runs>>

\* the arguments the specification calls invalid: an empty name, a kind
\* that is no node_type
DirectInvalid == {<<"technique", <<>>>>, <<"algorithm", <<"X">>>>}

\* NodeRepository.upsert(type, name, {}, 'system', 0.5) with such arguments
DirectUpsertInvalid ==
  /\ ops < MaxOps
  /\ \E arg \in DirectInvalid :
       LET type == arg[1]
           name == arg[2]
           args == [op |-> "upsert", type |-> type, name |-> name, metadata |-> EmptyMeta,
                    confidence |-> 5, nodesBefore |-> nodes]
       IN IF UpsertThrows(type, name)
          THEN /\ call' = args @@ [threw |-> TRUE, hit |-> FALSE, old |-> NoCall, id |-> 0]
               /\ UNCHANGED <<nodes, upserts, other>>
          ELSE LET before == FindNodeId(nodes, type, normalizeName(name))
                   after == UpsertNodes(nodes, type, name, EmptyMeta, 5)
                   id == UpsertId(after, type, name)
               IN /\ nodes' = after
                  /\ upserts' = upserts \cup {<<type, normalizeName(name), id>>}
                  /\ other' = [other EXCEPT !.node = Written(other.node, id, 5)]
                  /\ call' = args @@ [threw |-> FALSE, hit |-> before # 0,
                                      old |-> IF before # 0 THEN nodes[before] ELSE NoCall,
                                      id |-> id]
  /\ ops' = ops + 1
  /\ UNCHANGED <<edges, papers, logs, logsUp, batch, batchSize, ctl, runs>>

\* SELECT upsert_node('technique', name, metadata)
DirectUpsertNode ==
  /\ ops < MaxOps
  /\ \E name \in DirectNames, metadata \in DirectMetas :
       LET before == FindNodeId(nodes, "technique", normalize_name(name))
           after == upsert_node(nodes, "technique", name, metadata)
           id == FindNodeId(after, "technique", normalize_name(name))
       IN /\ nodes' = after
          /\ other' = IF before = 0
                      THEN [other EXCEPT !.node = Written(other.node, id, 10)]
                      ELSE other
          /\ call' = [op |-> "upsert_node", threw |-> FALSE, type |-> "technique",
                      name |-> name, metadata |-> metadata, confidence |-> 10,
                      hit |-> before # 0,
                      old |-> IF before # 0 THEN nodes[before] ELSE NoCall,
                      id |-> id]
  /\ ops' = ops + 1
  /\ UNCHANGED <<edges, papers, logs, logsUp, upserts, batch, batchSize, ctl, runs>>

\* EdgeRepository.create('applies', s, t, undefined, 'e1', confidence)
\* between stored nodes
DirectCreate ==
  /\ ops < MaxOps
  /\ \E s \in NodeIds(nodes), t \in NodeIds(nodes), confidence \in DirectConfs :
       LET before == FindEdgeId(edges, "applies", s, t)
           after == CreateEdges(edges, "applies", s, t, Undefined, "e1", confidence,
                                EmptyMeta)
           id == FindEdgeId(after, "applies", s, t)
       IN /\ ~CreateThrows(nodes, "applies", s, t)
          /\ edges' = after
          /\ other' = [other EXCEPT !.edge = Written(other.edge, id, confidence)]
          /\ call' = [op |-> "create", threw |-> FALSE, type |-> "applies",
                      source_id |-> s, target_id |-> t, description |-> Undefined,
                      evidence |-> "e1", confidence |-> confidence,
                      metadata |-> EmptyMeta, hit |-> before # 0,
                      old |-> IF before # 0 THEN edges[before] ELSE NoCall,
                      id |-> id]
  /\ ops' = ops + 1
  /\ UNCHANGED <<nodes, papers, logs, logsUp, upserts, batch, batchSize, ctl, runs>>

\* SELECT create_edge('applies', s, t, description, NULL, confidence) between
\* stored nodes, the confidence given or left to its default 1.0
DirectCreateEdge ==
  /\ ops < MaxOps
  /\ \E s \in NodeIds(nodes), t \in NodeIds(nodes),
        description \in {Null, ""}, confidence \in {5, 10} :
       LET before == FindEdgeId(edges, "applies", s, t)
           after == create_edge(edges, "applies", s, t, description, Null, confidence)
           id == FindEdgeId(after, "applies", s, t)
       IN /\ ~CreateThrows(nodes, "applies", s, t)
          /\ edges' = after
          /\ other' = [other EXCEPT !.edge = Written(other.edge, id, confidence)]
          /\ call' = [op |-> "create_edge", threw |-> FALSE, type |-> "applies",
                      source_id |-> s, target_id |-> t, description |-> description,
                      evidence |-> Null, confidence |-> confidence,
                      metadata |-> EmptyMeta, hit |-> before # 0,
                      old |-> IF before # 0 THEN edges[before] ELSE NoCall,
                      id |-> id]
  /\ ops' = ops + 1
  /\ UNCHANGED <<nodes, papers, logs, logsUp, upserts, batch, batchSize, ctl, runs>>

NextDirect ==
  \/ DirectUpsert
  \/ DirectUpsertInvalid
  \/ DirectUpsertNode
  \/ DirectCreate
  \/ DirectCreateEdge

SpecDirect == InitDirect /\ [][NextDirect]_vars

\* ------------------------------------------- resolveEntityId, call by call
\* Nodes of kind paper and technique are upserted under a few names, and
\* resolveEntityId is called with a paper's id and with the map that
\* upsertEntities builds from some of the stored technique nodes.
ResolveNames == {<<"X">>, <<"X", " ", "Y">>, <<"x", "!">>, <<"N">>}

\* the maps upsertEntities can have built: canonical name -> id, over a set
\* of stored nodes that are no papers
ResolveMaps(ns) ==
  LET ids == {i \in NodeIds(ns) : ns[i].type # "paper"}
      Keys(S) == {ns[i].canonical_name : i \in S}
  IN {[k \in Keys(S) |-> CHOOSE i \in S : ns[i].canonical_name = k] : S \in SUBSET ids}

ResolveSetupNode ==
  /\ ops < MaxOps
  /\ ops' = ops + 1
  /\ \E type \in {"paper", "technique"}, name \in {<<"X">>, <<"X", " ", "Y">>} :
       /\ nodes' = UpsertNodes(nodes, type, name, EmptyMeta, 6)
       /\ upserts' = upserts \cup {<<type, normalizeName(name), UpsertId(nodes', type, name)>>}
  /\ UNCHANGED <<edges, papers, logs, logsUp, call, other, batch, batchSize, ctl, runs>>

\* resolveEntityId(entityName, paperId, entityNameToIdMap)
ResolveCall ==
  /\ ops < MaxOps
  /\ ops' = ops + 1
  /\ \E entityName \in ResolveNames,
        paperId \in {i \in NodeIds(nodes) : nodes[i].type = "paper"},
        map \in ResolveMaps(nodes) :
     \E id \in ResolveEntityId(nodes, entityName, paperId, map) :
       call' = [op |-> "resolveEntityId", entityName |-> entityName,
                paperId |-> paperId, map |-> map, nodes |-> nodes, id |-> id]
  /\ UNCHANGED <<nodes, edges, papers, logs, logsUp, upserts, other, batch, batchSize,
                 ctl, runs>>

NextResolve ==
  \/ ResolveSetupNode
  \/ ResolveCall

SpecResolve == InitIdle /\ [][NextResolve]_vars

\* ------------------------------------------ AgentOrchestrator.processPapers
\* processPapers(papers, batchSize) on a database that holds the two papers
\* it is given, each pending or completed: chunks of processPaper calls under
\* Promise.all, a rejected call giving null; nothing but extraction_logs is
\* written.
ProcessInputs ==
  {[paper |-> 1, fullText |-> PaperA.full_text], [paper |-> 2, fullText |-> PaperB.full_text]}

InitProcess ==
  /\ nodes = <<NewNode("paper", PaperA.title, PaperNodeMetadata(PaperA), 10),
               NewNode("paper", PaperB.title, PaperNodeMetadata(PaperB), 10)>>
  /\ edges = <<>>
  /\ \E st \in [{1, 2} -> {"pending", "completed"}] :
       papers = (1 :> [NewPaper(PaperA) EXCEPT !.status = st[1]])
                @@ (2 :> [NewPaper(PaperB) EXCEPT !.status = st[2]])
  /\ logs = [i \in {} |-> <<>>]
  /\ upserts = {}
  /\ logsUp \in BOOLEAN
  /\ call = NoCall
  /\ ops = 0
  /\ other = NoCall
  /\ batch \in {<<a>> : a \in ProcessInputs} \cup
               {p \in {<<a, b>> : a \in ProcessInputs, b \in ProcessInputs} : p[1] # p[2]}
  /\ batchSize \in {1, 2, 3}
  /\ ctl = InitCtl
  /\ runs = [r \in 0..Len(batch) |-> IdleRun]

\* the loop test and the chunk's processPaper calls
ProcessStartChunk ==
  /\ ctl.pc = "loop"
  /\ ctl.i < Len(batch)
  /\ LET chunk == Slice(ctl.i, batchSize, Len(batch))
         lo == SliceStart(ctl.i, Len(batch))
         positions == [n \in 1..Cardinality(chunk) |-> lo + n]
     IN /\ ctl' = [ctl EXCEPT !.pc = "await", !.chunk = chunk,
                              !.started = @ \o positions]
        /\ runs' = [r \in DOMAIN runs |->
                      IF r \in chunk
                      THEN Goto([IdleRun EXCEPT !.api = "processPaper",
                                                !.paper = batch[r].paper,
                                                !.text = batch[r].fullText], "entities")
                      ELSE runs[r]]
  /\ UNCHANGED <<other, logsUp, nodes, edges, papers, logs, upserts, call, ops, batch, batchSize>>

\* Promise.all resolves: the analyses that are not null are pushed in the
\* order of the chunk; the delay when a chunk follows
ProcessSettle ==
  /\ ctl.pc = "await"
  /\ \A r \in ctl.chunk : Settled(r)
  /\ LET lo == SliceStart(ctl.i, Len(batch))
         positions == [n \in 1..Cardinality(ctl.chunk) |-> lo + n]
         kept == SelectSeq(positions, LAMBDA r : runs[r].pc = "fulfilled")
         analyses == [n \in 1..Len(kept) |->
                        [paper_id |-> runs[kept[n]].paper,
                         entities |-> runs[kept[n]].entities,
                         relationships |-> runs[kept[n]].relationships]]
         pushed == [ctl EXCEPT !.results = @ \o analyses]
     IN ctl' = IF ctl.i + batchSize < Len(batch)
               THEN [pushed EXCEPT !.pc = "delay"]
               ELSE [pushed EXCEPT !.pc = "loop", !.i = @ + batchSize]
  /\ UNCHANGED <<other, logsUp, nodes, edges, papers, logs, upserts, call, ops, batch, batchSize, runs>>

\* the 1000 ms timer fires
ProcessDelay ==
  /\ ctl.pc = "delay"
  /\ ctl' = [ctl EXCEPT !.pc = "loop", !.i = @ + batchSize, !.waitedAt = @ \cup {ctl.i}]
  /\ UNCHANGED <<other, logsUp, nodes, edges, papers, logs, upserts, call, ops, batch, batchSize, runs>>

\* the loop test fails: return results
ProcessReturn ==
  /\ ctl.pc = "loop"
  /\ ctl.i >= Len(batch)
  /\ ctl' = [ctl EXCEPT !.pc = "done", !.returned = ctl.results]
  /\ UNCHANGED <<other, logsUp, nodes, edges, papers, logs, upserts, call, ops, batch, batchSize, runs>>

NextProcess ==
  \/ ProcessStartChunk
  \/ ProcessSettle
  \/ ProcessDelay
  \/ ProcessReturn
  \/ \E r \in DOMAIN runs : EntityStage(r)
  \/ \E r \in DOMAIN runs : GetExistingPapers(r)
  \/ \E r \in DOMAIN runs : RelationshipStage(r)

SpecProcess == InitProcess /\ [][NextProcess]_vars

\* ------------------------------------------------- the entry point main
\* main of the ingestion entry point: validateConfig, the connection check,
\* then runIngestion, which hands the loaded papers to ingestPapers with a
\* fixed batch size (2 or 5 in the source; here a list of two papers with a
\* batch size below or equal to its length). other holds the environment the
\* process was started in.
MainEnvs ==
  [kind : {"env"}, DATABASE_URL : {Undefined, "postgresql://db"},
   OPENAI_API_KEY : {Undefined, "", "sk"}, dbUp : BOOLEAN, exit : {Null}]

InitMain ==
  /\ InitTables
  /\ logsUp = TRUE
  /\ call = NoCall
  /\ ops = 0
  /\ other \in MainEnvs
  /\ batch = <<PaperA, PaperB>>
  /\ batchSize \in {1, 2}
  /\ ctl = [InitCtl EXCEPT !.pc = "validateConfig"]
  /\ runs = [r \in 0..Len(batch) |-> IdleRun]

\* validateConfig: the required variables that are absent or empty
MissingEnvVars(env) ==
  {v \in {"DATABASE_URL", "OPENAI_API_KEY"} : env[v] = Undefined \/ env[v] = ""}

\* a plausible slip: the result of the connection check is not looked at
CheckDatabaseConnection_Ignored(env) == TRUE

\* checkDatabaseConnection: SELECT 1, false when it throws
CheckDatabaseConnection(env) == env.dbUp

\* try { validateConfig() } catch { process.exit(1) }
MainValidateConfig ==
  /\ ctl.pc = "validateConfig"
  /\ IF MissingEnvVars(other) # {}
     THEN /\ ctl' = [ctl EXCEPT !.pc = "exit"]
          /\ other' = [other EXCEPT !.exit = 1]
     ELSE /\ ctl' = [ctl EXCEPT !.pc = "checkDatabase"]
          /\ UNCHANGED other
  /\ UNCHANGED <<nodes, edges, papers, logs, logsUp, upserts, call, ops, batch, batchSize, runs>>

\* if (!dbConnected) process.exit(1); otherwise runIngestion calls ingestPapers
MainCheckDatabase ==
  /\ ctl.pc = "checkDatabase"
  /\ IF CheckDatabaseConnection(other)
     THEN /\ ctl' = [ctl EXCEPT !.pc = "loop"]
          /\ UNCHANGED other
     ELSE /\ ctl' = [ctl EXCEPT !.pc = "exit"]
          /\ other' = [other EXCEPT !.exit = 1]
  /\ UNCHANGED <<nodes, edges, papers, logs, logsUp, upserts, call, ops, batch, batchSize, runs>>

\* ingestPapers has returned: closeDatabaseConnection, and main returns
MainClose ==
  /\ ctl.pc = "done"
  /\ ctl' = [ctl EXCEPT !.pc = "closed"]
  /\ other' = [other EXCEPT !.exit = 0]
  /\ UNCHANGED <<nodes, edges, papers, logs, logsUp, upserts, call, ops, batch, batchSize, runs>>

NextMain ==
  \/ MainValidateConfig
  \/ MainCheckDatabase
  \/ MainClose
  \/ Next

SpecMain == InitMain /\ [][NextMain]_vars

\* -------------------------------------------- fetch-papers: fetchWithRetry
\* what one fetch(url) can come to: a 200 with a JSON body, a 200 whose body
\* is no JSON (response.json() rejects), a 429, another status, no response
FetchResponses == {"ok", "badJson", "429", "500", "networkError"}

\* fetchWithRetry(url, retries): other holds the call's position, the loop
\* index, the responses it got, the sleeps it took (ms) and how it ended
InitFetch ==
  /\ InitTables
  /\ logsUp = TRUE
  /\ call = NoCall
  /\ ops = 0
  /\ other \in [kind : {"fetch"}, retries : 1..MaxRetries, i : {0}, pc : {"fetch"},
                history : {<<>>}, waits : {<<>>}, wait : {0}, result : {"pending"}]
  /\ batch = <<>>
  /\ batchSize = 1
  /\ ctl = [InitCtl EXCEPT !.pc = "unused"]
  /\ runs = [r \in {0} |-> IdleRun]

\* one turn of the loop body, up to its return, throw or sleep
FetchStep(f, response) ==
  LET got == [f EXCEPT !.history = Append(@, response)]
  IN CASE response = "429" ->
            [got EXCEPT !.pc = "sleep", !.wait = (2 ^ f.i) * 2000]
       [] response = "ok" -> [got EXCEPT !.pc = "returned", !.result = "body"]
       [] OTHER ->
            IF f.i = f.retries - 1
            THEN [got EXCEPT !.pc = "threw", !.result = "error"]
            ELSE [got EXCEPT !.pc = "sleep", !.wait = 1000 * (f.i + 1)]

\* the loop test holds: fetch(url) and what follows from its answer
FetchAttempt ==
  /\ other.pc = "fetch"
  /\ other.i < other.retries
  /\ \E response \in FetchResponses : other' = FetchStep(other, response)
  /\ UNCHANGED <<nodes, edges, papers, logs, logsUp, upserts, call, ops, batch, batchSize, ctl, runs>>

\* the sleep ends (after continue, or at the end of the catch block): i++
FetchSleep ==
  /\ other.pc = "sleep"
  /\ other' = [other EXCEPT !.pc = "fetch", !.i = @ + 1, !.waits = Append(@, other.wait)]
  /\ UNCHANGED <<nodes, edges, papers, logs, logsUp, upserts, call, ops, batch, batchSize, ctl, runs>>

\* the loop test fails: the function body ends without a return statement
FetchLoopEnd ==
  /\ other.pc = "fetch"
  /\ other.i >= other.retries
  /\ other' = [other EXCEPT !.pc = "returned", !.result = Undefined]
  /\ UNCHANGED <<nodes, edges, papers, logs, logsUp, upserts, call, ops, batch, batchSize, ctl, runs>>

NextFetch ==
  \/ FetchAttempt
  \/ FetchSleep
  \/ FetchLoopEnd

SpecFetch == InitFetch /\ [][NextFetch]_vars

\* =========================================================================
\* Properties
\* =========================================================================

\* C1 (Spec): whatever upserts the concurrent runs of a batch have made, by
\* PaperRepository.create or by upsertEntities, the nodes table holds at
\* most one row per (type, canonical_name), the canonical name of a row is
\* normalizeName of its name, and all upserts of one type and one normalised
\* name returned one and the same id.
C1_OneNodePerKey ==
  /\ \A i, j \in DOMAIN nodes :
       (nodes[i].type = nodes[j].type /\ nodes[i].canonical_name = nodes[j].canonical_name)
         => i = j
  /\ \A i \in DOMAIN nodes : nodes[i].canonical_name = normalizeName(nodes[i].name)
  /\ \A u, v \in upserts : (u[1] = v[1] /\ u[2] = v[2]) => u[3] = v[3]
  /\ \A u \in upserts :
       u[3] \in DOMAIN nodes /\ nodes[u[3]].type = u[1] /\ nodes[u[3]].canonical_name = u[2]

\* two runs of the batch have both upserted the technique "x" (spelled "X"
\* and "x!") and hold the same id for it, while other nodes exist
C1_Witness ==
  \E r1, r2 \in DOMAIN runs :
    /\ r1 # r2
    /\ <<"x">> \in DOMAIN runs[r1].entityMap
    /\ <<"x">> \in DOMAIN runs[r2].entityMap
    /\ runs[r1].entityMap[<<"x">>] = runs[r2].entityMap[<<"x">>]
    /\ Len(nodes) >= 3

\* C2 (SpecStore): after an upsert that hit an existing (type,
\* canonical_name) row, the row's confidence is the larger of the stored and
\* the incoming one, its metadata has the keys of both maps, each key of the
\* incoming map with the incoming value and every other key with the stored
\* value, and the key still has exactly one row, the one whose id is returned.
C2_NodeMerge ==
  (call.op = "upsert" /\ ~call.threw /\ call.hit) =>
    LET n == nodes[call.id]
        old == call.old
    IN /\ n.confidence = Max(old.confidence, call.confidence)
       /\ DOMAIN n.metadata = DOMAIN old.metadata \cup DOMAIN call.metadata
       /\ \A key \in DOMAIN n.metadata :
            n.metadata[key] = IF key \in DOMAIN call.metadata THEN call.metadata[key]
                              ELSE old.metadata[key]
       /\ Cardinality({i \in DOMAIN nodes :
                         /\ nodes[i].type = call.type
                         /\ nodes[i].canonical_name = normalizeName(call.name)}) = 1

\* upsert("technique", "X", {description: d2, section: s1}, 0.6) was followed
\* by upsert("technique", "X", {description: d1}, 0.9): one node, confidence
\* 0.9, description d1, section s1
C2_Witness ==
  /\ call.op = "upsert" /\ ~call.threw /\ call.hit
  /\ call.name = <<"X">>
  /\ call.old.confidence = 6 /\ call.confidence = 9
  /\ "section" \in DOMAIN call.old.metadata
  /\ call.metadata = ("description" :> "d1")
  /\ Len(nodes) = 1
  /\ nodes[1].confidence = 9
  /\ nodes[1].metadata = ("description" :> "d1") @@ ("section" :> "s1")

\* C3 (SpecConv): two upserts u1 and u2 of one (type, canonical_name) leave
\* the node with the same confidence and metadata whether u1 or u2 arrives
\* first, and u1 applied twice leaves what u1 applied once leaves.
C3_NodeMergeConvergent ==
  (other.kind = "node" /\ ops = 2) =>
    /\ Len(nodes) = 1 /\ Len(other.swapped.nodes) = 1
    /\ nodes[1].confidence = other.swapped.nodes[1].confidence
    /\ nodes[1].metadata = other.swapped.nodes[1].metadata
    /\ other.twice.nodes = other.once.nodes

\* C4 (SpecConv): two create calls c1 and c2 of one (type, source_id,
\* target_id) leave the edge in the same state whether c1 or c2 arrives
\* first, and c1 applied twice leaves what c1 applied once leaves.
C4_EdgeMergeConvergent ==
  (other.kind = "edge" /\ ops = 2) =>
    /\ Len(edges) = 1 /\ Len(other.swapped.edges) = 1
    /\ edges[1] = other.swapped.edges[1]
    /\ other.twice.edges = other.once.edges

\* C5 (SpecEdges): after a create that hit an existing (type, source_id,
\* target_id) row, description and evidence are the incoming text only where
\* the incoming text is non-empty and none was stored, the stored text in
\* every other case, and the confidence is the larger of the two.
C5_EdgeConflictKeepsText ==
  (call.op = "create" /\ ~call.threw /\ call.hit) =>
    LET e == edges[call.id]
        Kept(stored, incoming) ==
          IF OrNull(incoming) # Null /\ stored = Null THEN incoming ELSE stored
    IN /\ e.description = Kept(call.old.description, call.description)
       /\ e.evidence = Kept(call.old.evidence, call.evidence)
       /\ e.confidence = Max(call.old.confidence, call.confidence)

\* C6 (SpecEdges): every stored edge joins two existing nodes, and a
\* createRelationships call one of whose endpoint names resolved to no node
\* created no edge and left the edges table as it was.
C6_NoDanglingReference ==
  /\ \A e \in DOMAIN edges :
       edges[e].source_id \in DOMAIN nodes /\ edges[e].target_id \in DOMAIN nodes
  /\ (call.op = "createRelationships" /\ (call.sourceId = 0 \/ call.targetId = 0)) =>
       (edges = call.edgesBefore /\ call.createdCount = 0)

\* with X and Y stored and an edge between them, createRelationships was
\* given X -> N, where N names no node: the source resolved, the target did
\* not, and the relationship was skipped
C6_Witness ==
  /\ call.op = "createRelationships"
  /\ call.rel.target = <<"N">>
  /\ call.sourceId # 0 /\ call.targetId = 0
  /\ call.skipped
  /\ Len(nodes) = 2 /\ Len(edges) = 1
  /\ edges = call.edgesBefore

\* C7 (Spec): in every run of a batch the steps follow one another in the
\* order create the paper record, set processing, entity extraction,
\* relationship extraction, validation, upsertEntities, createRelationships,
\* set completed, none skipped and none repeated; the statements sent by
\* createRelationships all fall between its call and the status update; entity
\* extraction begins only on a stored paper row; and the status update to
\* completed is reached only with every validated entity upserted and every
\* validated relationship gone through.
C7_StageOrder ==
  \A r \in DOMAIN runs :
    LET run == runs[r]
        order == <<"createNode", "createRow", "setProcessing", "entities",
                   "relationships", "validate", "upsertEntities",
                   "createRelationships", "setCompleted", "fulfilled">>
        inOrder(step) == \E i \in 1..Len(order) : order[i] = step
        main == SelectSeq(run.trail, inOrder)
        Index(step) == CHOOSE i \in 1..Len(run.trail) : run.trail[i] = step
        Has(step) == \E i \in 1..Len(run.trail) : run.trail[i] = step
    IN /\ Len(main) <= Len(order)
       /\ \A i \in 1..Len(main) : main[i] = order[i]
       /\ \A i \in 1..Len(run.trail) :
            run.trail[i] \in {"resolveSource", "resolveTarget", "createEdge"} =>
              /\ Has("createRelationships") /\ Index("createRelationships") < i
              /\ Has("setCompleted") => i < Index("setCompleted")
       /\ \A i \in 1..Len(run.trail) :
            run.trail[i] \in {"setFailed", "rejected"} =>
              \A j \in (i + 1)..Len(run.trail) : run.trail[j] = "rejected"
       /\ Has("entities") => run.paper \in DOMAIN papers
       /\ Has("setCompleted") =>
            /\ \A i \in 1..Len(run.entities) :
                 normalizeName(run.entities[i].name) \in DOMAIN run.entityMap
            /\ run.k >= Len(run.relationships)

\* a run that upserted an entity, looked an endpoint up in the database,
\* created an edge and returned, all of its steps taken
C7_Witness ==
  \E r \in DOMAIN runs :
    /\ runs[r].pc = "fulfilled"
    /\ Len(runs[r].entities) >= 1
    /\ runs[r].createdCount >= 1
    /\ \E i \in 1..Len(runs[r].trail) : runs[r].trail[i] = "resolveSource"
    /\ papers[runs[r].paper].status = "completed"

\* C8 (SpecPaper): a call of ingestPaper or reprocessPaper in which a stage
\* threw goes on to the failed status update and ends by throwing, never by
\* returning; when it has thrown the paper's status is failed; and whenever a
\* call has returned or thrown on a stored paper row, that row's status is
\* completed or failed.
C8_FailedAndReraised ==
  LET run == runs[0]
      stages == {"entities", "relationships", "upsertEntities"}
  IN /\ run.threw \in stages => run.pc \in {"setFailed", "rejected"}
     /\ (run.pc = "rejected" /\ run.threw \in stages) =>
          papers[run.paper].status = "failed"
     /\ run.pc = "fulfilled" =>
          (run.threw = "" /\ papers[run.paper].status = "completed")
     /\ (Settled(0) /\ run.paper # 0) =>
          papers[run.paper].status \in {"completed", "failed"}

\* reprocessPaper of a paper ingested before: its relationship stage threw,
\* the call has thrown and the paper is failed
C8_Witness ==
  /\ runs[0].api = "reprocessPaper"
  /\ runs[0].pc = "rejected"
  /\ runs[0].threw = "relationships"
  /\ papers[runs[0].paper].status = "failed"

\* C9 (SpecPaper): a call that ended with the paper failed has written none
\* of its entities and none of its relationships to the nodes and edges tables.
C9_AllOrNothing ==
  (runs[0].pc = "rejected" /\ runs[0].paper # 0
     /\ runs[0].threw \in {"entities", "relationships", "upsertEntities"}
     /\ papers[runs[0].paper].status = "failed")
    => runs[0].writes = 0

\* C10 (Spec): when ingestPapers returns, every position of the input was
\* started exactly once, in order, and its run has settled; a run that threw
\* went through the failed status update and a run that returned through the
\* completed one, the paper row showing it unless another run of the batch
\* wrote the same row; and successCount + failCount is the length of the
\* input, successCount counting the runs that returned.
C10_PartialFailureIsolation ==
  ctl.pc = "done" =>
    LET all == 1..Len(batch)
        Has(r, step) == \E i \in 1..Len(runs[r].trail) : runs[r].trail[i] = step
        alone(r) == \A q \in all : q # r => runs[q].paper # runs[r].paper
    IN /\ Len(ctl.started) = Len(batch)
       /\ \A r \in all : ctl.started[r] = r
       /\ \A r \in all : Settled(r) /\ runs[r].paperData = batch[r]
       /\ \A r \in all : runs[r].pc = "fulfilled" =>
            /\ Has(r, "setCompleted")
            /\ alone(r) => papers[runs[r].paper].status = "completed"
       /\ \A r \in all : (runs[r].pc = "rejected" /\ runs[r].paper # 0) =>
            /\ Has(r, "setFailed")
            /\ alone(r) => papers[runs[r].paper].status = "failed"
       /\ ctl.successCount + ctl.failCount = Len(batch)
       /\ ctl.successCount = Cardinality({r \in all : runs[r].pc = "fulfilled"})
       /\ ctl.failCount = Cardinality({r \in all : runs[r].pc = "rejected"})

\* two papers in one chunk: the relationship stage of the first threw, the
\* second completed, and ingestPapers counted success 1, failure 1
C10_Witness ==
  /\ ctl.pc = "done"
  /\ Len(batch) = 2 /\ batchSize = 2
  /\ runs[1].pc = "rejected" /\ runs[1].threw = "relationships"
  /\ runs[2].pc = "fulfilled"
  /\ papers[runs[2].paper].status = "completed"
  /\ papers[runs[1].paper].status = "failed"
  /\ ctl.successCount = 1 /\ ctl.failCount = 1

\* C11 (Spec): at every moment at most batchSize runs of ingestPapers are
\* in flight, all of them of the chunk being awaited; a run of a later chunk
\* has started only when every run of the earlier chunks has settled; and
\* when ingestPapers has returned every run has settled.
C11_BoundedConcurrency ==
  LET all == 1..Len(batch)
      inFlight == {r \in all : runs[r].pc \notin {"idle", "fulfilled", "rejected"}}
      chunkOf(r) == (r - 1) \div batchSize
  IN /\ Cardinality(inFlight) <= batchSize
     /\ inFlight # {} => (ctl.pc = "await" /\ inFlight \subseteq ctl.chunk)
     /\ \A r, q \in all :
          (chunkOf(r) < chunkOf(q) /\ runs[q].pc # "idle") => Settled(r)
     /\ ctl.pc = "done" => \A r \in all : Settled(r)

\* two runs of one chunk are in flight together, batchSize being 2
C11_Witness ==
  /\ batchSize = 2 /\ Len(batch) = 2
  /\ runs[1].pc = "upsertEntities"
  /\ runs[2].pc = "entities"

\* C12 (SpecPaper): once PaperRepository.create has returned in an ingestPaper
\* call whose input carries an arxiv_id, there is exactly one papers row with
\* that arxiv_id, it is the row returned, its title and abstract are the
\* input's, and the paper-kind node the call wrote is that paper's own node:
\* no second paper node exists for the identifier.
C12_ReingestInPlace ==
  LET run == runs[0]
  IN (run.api = "ingestPaper" /\ run.paper # 0 /\ run.paperData.arxiv_id # Undefined) =>
       /\ Cardinality({i \in DOMAIN papers :
                         papers[i].arxiv_id = run.paperData.arxiv_id}) = 1
       /\ papers[run.paper].arxiv_id = run.paperData.arxiv_id
       /\ papers[run.paper].title = run.paperData.title
       /\ papers[run.paper].abstract = OrNull(run.paperData.abstract)
       /\ nodes[run.paper].type = "paper"
       /\ run.nodeId = run.paper

\* C13 (SpecPaper): PaperRepository.create never fails in an ingestPaper
\* call: whatever papers exist already, with or without an arxiv_id in the
\* input, the call gets past record creation, sets the paper to processing
\* and goes on to entity extraction.
C13_CreationAlwaysSucceeds ==
  LET run == runs[0]
      Has(step) == \E i \in 1..Len(run.trail) : run.trail[i] = step
  IN run.api = "ingestPaper" =>
       /\ run.threw # "create"
       /\ (Has("createRow") /\ run.pc # "createRow") =>
            (run.paper \in DOMAIN papers /\ Has("setProcessing"))
       /\ Settled(0) => Has("entities")

\* C14 (SpecPaper): when a call of ingestPaper or reprocessPaper has settled
\* on the paper and the text of the call before it, the capability having
\* answered in both, the nodes table and the edges table have the sizes they
\* had after the call before.
C14_ReprocessingConvergence ==
  LET run == runs[0]
      capability == {"entities", "relationships"}
  IN (/\ Settled(0) /\ call.op = "previous"
      /\ run.paper # 0 /\ run.paper = call.paper
      /\ run.text = call.text
      /\ (run.api = "ingestPaper" /\ call.api = "ingestPaper" => run.paperData = call.paperData)
      /\ run.threw \notin capability /\ call.threw \notin capability)
     => (Len(nodes) = call.nodeCount /\ Len(edges) = call.edgeCount)

\* ingestPaper of a paper wrote entities and an edge and completed; the
\* reprocessPaper call that followed completed too, creating an edge again
C14_Witness ==
  /\ call.op = "previous" /\ call.api = "ingestPaper" /\ call.pc = "fulfilled"
  /\ runs[0].api = "reprocessPaper" /\ runs[0].pc = "fulfilled"
  /\ runs[0].paper = call.paper
  /\ runs[0].createdCount >= 1 /\ runs[0].writes >= 2
  /\ Len(edges) = call.edgeCount /\ Len(edges) >= 1

\* C15 (SpecNames): normalizeName is idempotent: normalizing a normalized
\* name returns it unchanged, for every input.
C15_NormalizeIdempotent ==
  (other.kind = "name" /\ other.step = 2) => other.twice = other.once

\* C16 (SpecNames): a normalized name is lower-case, has no whitespace at
\* its start or end, has every run of whitespace collapsed to one space, and
\* holds only letters, digits, spaces and hyphens.
C16_NormalizedForm ==
  LET n == other.once
  IN (other.kind = "name" /\ other.step >= 1) =>
       /\ toLowerCase(n) = n
       /\ n # <<>> => (~IsSpace(n[1]) /\ ~IsSpace(n[Len(n)]))
       /\ \A i \in 1..Len(n) : IsSpace(n[i]) => n[i] = " "
       /\ \A i \in 1..(Len(n) - 1) : ~(IsSpace(n[i]) /\ IsSpace(n[i + 1]))
       /\ \A i \in 1..Len(n) : n[i] \in LowerChars \cup DigitChars \cup {" ", "-"}

\* C17 (SpecDirect): every stored node has canonical_name =
\* normalizeName(name), normalizeName being the canonicalizer of
\* NodeRepository, whether NodeRepository.upsert or the SQL function
\* upsert_node wrote the row.
C17_CanonicalIsNormalized ==
  \A i \in NodeIds(nodes) : nodes[i].canonical_name = normalizeName(nodes[i].name)

\* C18 (SpecDirect): the confidence of every stored node and of every stored
\* edge lies in [0, 1], whatever number upsert or create was given.
C18_ConfidenceInRange ==
  /\ \A i \in NodeIds(nodes) : nodes[i].confidence >= 0 /\ nodes[i].confidence <= 10
  /\ \A i \in 1..Len(edges) : edges[i].confidence >= 0 /\ edges[i].confidence <= 10

\* C19 (SpecDirect): the confidence of a row never decreases on a conflict:
\* the stored confidence of every node and of every edge is the greatest of
\* the confidences written to that row so far.
C19_ConfidenceIsMaxWritten ==
  LET Greatest(S) == CHOOSE x \in S : \A y \in S : y <= x
  IN other.kind = "written" =>
       /\ Len(other.node) = Len(nodes) /\ Len(other.edge) = Len(edges)
       /\ \A i \in NodeIds(nodes) : nodes[i].confidence = Greatest(other.node[i])
       /\ \A i \in 1..Len(edges) : edges[i].confidence = Greatest(other.edge[i])

\* create has just hit an edge with a confidence below the stored one: the
\* row has been written with two confidences and keeps the greater
C19_Witness ==
  /\ call.op = "create" /\ call.hit
  /\ call.confidence < call.old.confidence
  /\ Cardinality(other.edge[call.id]) >= 2
  /\ edges[call.id].confidence = call.old.confidence

\* C20 (SpecPaper): a node merge never discards descriptive text: once a
\* node has a description (or a context) in its metadata, no step of the
\* pipeline removes it or replaces it by another text.
C20_DescriptionKept ==
  [][\A i \in NodeIds(nodes) : \A k \in {"description", "context"} :
       k \in DOMAIN nodes[i].metadata =>
         /\ k \in DOMAIN nodes'[i].metadata
         /\ nodes'[i].metadata[k] = nodes[i].metadata[k]]_vars

\* C21 (SpecResolve): the tiers of resolveEntityId are tried in a fixed
\* order: a name whose canonical form is a key of the entity map resolves to
\* the map's id, even when the paper's node or a search candidate matches
\* too; otherwise a name canonically equal to the paper's node name resolves
\* to the paper id; only otherwise the search decides.
C21_ResolutionTiers ==
  call.op = "resolveEntityId" =>
    LET normalized == normalizeName(call.entityName)
        inMap == normalized \in DOMAIN call.map
        isPaper == normalizeName(call.nodes[call.paperId].name) = normalized
    IN /\ inMap => call.id = call.map[normalized]
       /\ (~inMap /\ isPaper) => call.id = call.paperId
       /\ (~inMap /\ ~isPaper) =>
            \/ call.id \in SearchFirst(call.nodes, call.entityName)
            \/ call.id = 0 /\ SearchMatches(call.nodes, call.entityName) = {}

\* the name is a key of the map, the paper's own node has the same canonical
\* name, the search has a candidate as well, and the map's id was returned
C21_Witness ==
  /\ call.op = "resolveEntityId"
  /\ normalizeName(call.entityName) \in DOMAIN call.map
  /\ normalizeName(call.nodes[call.paperId].name) = normalizeName(call.entityName)
  /\ SearchMatches(call.nodes, call.entityName) # {}
  /\ call.id = call.map[normalizeName(call.entityName)]
  /\ call.id # call.paperId

\* C22 (SpecEdges): createRelationships creates the edge of a relationship
\* as soon as at least one of its two endpoint names resolves to a node id
\* (the relationship's type being an edge_type).
C22_CreatesWhenOneResolves ==
  (/\ call.op = "createRelationships"
   /\ call.rel.type \in EdgeTypes
   /\ (call.sourceId # 0 \/ call.targetId # 0))
  => (~call.skipped /\ call.createdCount = 1)

\* C23 (SpecPaper): a failure on one relationship in createRelationships
\* never aborts the batch or the paper: once createRelationships is entered the
\* run never reaches the catch block; when it has returned, every
\* relationship has had its turn and the returned count is the number of
\* creates that succeeded (the creates attempted less the errors caught).
C23_RelationshipFailureIsolated ==
  LET run == runs[0]
      Count(step) == Cardinality({i \in 1..Len(run.trail) : run.trail[i] = step})
  IN /\ run.threw # "createRelationships"
     /\ Count("createRelationships") >= 1 => run.pc \notin {"setFailed", "rejected"}
     /\ (Count("createRelationships") >= 1 /\ run.pc \in {"setCompleted", "fulfilled"}) =>
          /\ run.relationships # <<>> => run.k = Len(run.relationships)
          /\ run.createdCount = Count("createEdge") - run.caught
          /\ run.createdCount <= Len(edges)

\* the first relationship's create threw (no such edge_type), the second
\* relationship's edge was created, and the paper completed
C23_Witness ==
  /\ runs[0].pc = "fulfilled"
  /\ Len(runs[0].relationships) = 2
  /\ runs[0].relationships[1].type \notin EdgeTypes
  /\ runs[0].caught = 1 /\ runs[0].createdCount = 1
  /\ papers[runs[0].paper].status = "completed"

\* C24 (SpecPaper): entity validation returns exactly one entity per
\* distinct canonical name among the candidates: the earliest candidate of
\* that name with the greatest confidence. So X found at 0.6 twice in one
\* paper and at 0.9 in the next ends as one technique node "x" with
\* confidence 0.9.
C24_EntityDedup ==
  LET run == runs[0]
      candidates == EntityProcess(run.text)
      validated == \E i \in 1..Len(run.trail) : run.trail[i] = "validate"
      Group(c) == {j \in 1..Len(candidates) :
                     normalizeName(candidates[j].name) = normalizeName(c.name)}
      Best(c) == CHOOSE j \in Group(c) :
                   /\ \A m \in Group(c) : candidates[m].confidence <= candidates[j].confidence
                   /\ \A m \in Group(c) :
                        candidates[m].confidence = candidates[j].confidence => j <= m
  IN /\ validated =>
          /\ \A a, b \in 1..Len(run.entities) :
               normalizeName(run.entities[a].name) = normalizeName(run.entities[b].name)
                 => a = b
          /\ \A j \in 1..Len(candidates) : \E a \in 1..Len(run.entities) :
               run.entities[a] = candidates[Best(candidates[j])]
          /\ \A a \in 1..Len(run.entities) : \E j \in 1..Len(candidates) :
               run.entities[a] = candidates[Best(candidates[j])]
     /\ (/\ call.op = "previous" /\ call.pc = "fulfilled" /\ call.paperData = PaperA
         /\ run.paperData = PaperB /\ run.pc = "fulfilled") =>
          LET xs == {i \in NodeIds(nodes) :
                       nodes[i].type = "technique" /\ nodes[i].canonical_name = <<"x">>}
          IN Cardinality(xs) = 1 /\ \A i \in xs : nodes[i].confidence = 9

\* the paper finding X twice at 0.6 and then the paper finding X at 0.9 have
\* both completed, the second having validated two distinct entities
C24_Witness ==
  /\ call.op = "previous" /\ call.pc = "fulfilled" /\ call.paperData = PaperA
  /\ runs[0].paperData = PaperB /\ runs[0].pc = "fulfilled"
  /\ Len(EntityProcess("textA")) = 2 /\ Len(validateEntities(EntityProcess("textA"))) = 1
  /\ Len(runs[0].entities) = 2
  /\ \E i \in NodeIds(nodes) : nodes[i].canonical_name = <<"x">> /\ nodes[i].confidence = 9

\* C25 (SpecPaper): a candidate relationship of the capability's reply is in
\* the analysis processPaper returns if and only if at least one of its
\* endpoint names canonicalizes to the name of a deduped entity of the paper
\* or to the paper's own title.
C25_RelationshipFilter ==
  LET run == runs[0]
      candidates == RelationshipReply(run.text)
      validated == \E i \in 1..Len(run.trail) : run.trail[i] = "validate"
      names == EntityNames(run.entities) \cup {normalizeName(run.paperData.title)}
      Retained(c) == \E k \in 1..Len(run.relationships) :
                       /\ run.relationships[k].source = c.source
                       /\ run.relationships[k].target = c.target
                       /\ run.relationships[k].type = c.type
  IN (validated /\ run.api = "ingestPaper") =>
       \A j \in 1..Len(candidates) :
         Retained(candidates[j]) <=>
           (normalizeName(candidates[j].source) \in names
            \/ normalizeName(candidates[j].target) \in names)

\* C26 (SpecPaper): every stage attempt of a run is recorded: each attempt
\* of the entity, relationship and validation stages appends exactly one
\* record naming that stage, with success = TRUE when the stage succeeded and
\* success = FALSE when it threw. (Stated of the first call, on a paper that
\* had no records, the log INSERT succeeding.)
C26_EveryStageRecorded ==
  LET run == runs[0]
      Has(step) == \E i \in 1..Len(run.trail) : run.trail[i] = step
      recs == IF run.paper \in DOMAIN logs THEN logs[run.paper] ELSE <<>>
      N(type, success) ==
        Cardinality({i \in 1..Len(recs) :
                       recs[i].extraction_type = type /\ recs[i].success = success})
  IN (call.op = "none" /\ run.pc # "idle" /\ run.paper # 0 /\ logsUp) =>
       /\ Has("relationships") => (N("entity", TRUE) = 1 /\ N("entity", FALSE) = 0)
       /\ run.threw = "entities" => (N("entity", FALSE) = 1 /\ N("entity", TRUE) = 0)
       /\ Has("validate") => (N("relationship", TRUE) = 1 /\ N("relationship", FALSE) = 0)
       /\ run.threw = "relationships" =>
            (N("relationship", FALSE) = 1 /\ N("relationship", TRUE) = 0)
       /\ Has("validate") => (N("validation", TRUE) = 1 /\ N("validation", FALSE) = 0)

\* C27 (SpecPaper): a failure to write an extraction record never changes
\* the outcome: a call on the paper and text of the call before it, with the
\* log INSERT failing in one of the two and succeeding in the other and the
\* capability throwing in both or in neither, ends as the call before did:
\* the same analysis or error, the same final status, the same nodes and
\* edges.
C27_LogFailureChangesNothing ==
  LET run == runs[0]
      capability == {"entities", "relationships"}
  IN /\ run.threw # "logExtraction"
     /\ (/\ Settled(0) /\ call.op = "previous"
         /\ run.paper # 0 /\ run.paper = call.paper
         /\ run.text = call.text /\ run.text # ""
         /\ (run.api = "ingestPaper" /\ call.api = "ingestPaper" => run.paperData = call.paperData)
         /\ call.up # logsUp
         /\ (run.threw \in capability \/ call.threw \in capability) => run.threw = call.threw)
        => /\ run.pc = call.pc /\ run.threw = call.threw
           /\ run.entities = call.entities /\ run.relationships = call.relationships
           /\ run.createdCount = call.createdCount
           /\ papers[run.paper].status = call.status
           /\ nodes = call.nodes /\ edges = call.edges

\* ingestPaper completed with the records written, and reprocessPaper of the
\* same paper, every log INSERT failing, has completed too with entities
\* upserted and an edge created
C27_Witness ==
  /\ call.op = "previous" /\ call.api = "ingestPaper" /\ call.pc = "fulfilled" /\ call.up
  /\ runs[0].api = "reprocessPaper" /\ runs[0].pc = "fulfilled" /\ ~logsUp
  /\ runs[0].paper = call.paper
  /\ Len(runs[0].entities) >= 1 /\ runs[0].createdCount >= 1
  /\ Len(logs[runs[0].paper]) = 2

\* C28 (SpecPaper): a candidate entity or relationship whose kind is outside
\* the closed enumeration makes its extraction stage fail: the run does not
\* go on past that stage, writes no node and no edge, and never completes.
C28_UnknownKindIsParseError ==
  LET run == runs[0]
      Has(step) == \E i \in 1..Len(run.trail) : run.trail[i] = step
      es == EntityReply(run.text)
      rs == RelationshipReply(run.text)
      badEntity == \E j \in 1..Len(es) : es[j].type \notin NodeTypes
      badRelationship == \E j \in 1..Len(rs) : rs[j].type \notin EdgeTypes
  IN run.pc # "idle" =>
       /\ badEntity => ~Has("relationships")
       /\ badRelationship => ~Has("validate")
       /\ (badEntity \/ badRelationship) => (run.writes = 0 /\ run.pc # "fulfilled")

\* C29 (SpecPaper): an unexpected store error during persistence aborts the
\* paper's pipeline: when a node upsert or an edge create of the run has
\* thrown, the run does not go on to completed, and once settled it is
\* rejected with the paper failed.
C29_StoreErrorAborts ==
  LET run == runs[0]
  IN (run.threw = "upsertEntities" \/ run.caught >= 1) =>
       /\ run.pc \notin {"setCompleted", "fulfilled"}
       /\ Settled(0) => (run.pc = "rejected" /\ papers[run.paper].status = "failed")

\* C30 (SpecDirect): NodeRepository.upsert called with an empty name or with
\* a kind outside the enumeration fails and leaves the nodes table as it was.
C30_UpsertValidates ==
  (call.op = "upsert" /\ (call.name = <<>> \/ call.type \notin NodeTypes)) =>
    (call.threw /\ nodes = call.nodesBefore)

\* C31 (SpecEdges): direction is part of an edge's identity: there is at
\* most one edge per (type, source_id, target_id); a create that did not
\* throw returns the row of exactly its own (type, source, target), appended
\* when no such row existed, and leaves every other row, the reverse one
\* included, as it was; create(K, A, A) between stored nodes is accepted.
C31_DirectedIdentity ==
  LET Key(e) == <<e.type, e.source_id, e.target_id>>
  IN /\ \A i, j \in 1..Len(edges) : Key(edges[i]) = Key(edges[j]) => i = j
     /\ (call.op = "create" /\ ~call.threw) =>
          LET b == call.edgesBefore
              k == <<call.type, call.source_id, call.target_id>>
          IN /\ call.id \in 1..Len(edges) /\ Key(edges[call.id]) = k
             /\ \A i \in 1..Len(b) : Key(b[i]) # k => edges[i] = b[i]
             /\ (\A i \in 1..Len(b) : Key(b[i]) # k) =>
                  (Len(edges) = Len(b) + 1 /\ call.id = Len(b) + 1)
     /\ (/\ call.op = "create" /\ call.type \in EdgeTypes
         /\ call.source_id = call.target_id /\ call.source_id \in 1..call.nodeCount)
        => (~call.threw /\ edges[call.id].source_id = edges[call.id].target_id)

\* an edge A -> B was stored and create(K, B, A) has just added the reverse
\* edge as a second row
C31_Witness ==
  /\ call.op = "create" /\ ~call.threw /\ ~call.hit
  /\ call.source_id # call.target_id
  /\ Len(call.edgesBefore) = 1 /\ Len(edges) = 2
  /\ edges[1].type = edges[2].type
  /\ edges[1].source_id = edges[2].target_id /\ edges[1].target_id = edges[2].source_id

\* C32 (Spec): ingestPapers returns a summary holding the success count,
\* the failure count and a failures list with exactly one entry per failed
\* paper, naming the paper and its error.
C32_ReturnsSummary ==
  ctl.pc = "done" =>
    LET failed == {r \in 1..Len(batch) : runs[r].pc = "rejected"}
        summary == ctl.returned
    IN /\ summary # Undefined
       /\ summary.success_count = Len(batch) - Cardinality(failed)
       /\ summary.failure_count = Cardinality(failed)
       /\ Len(summary.failures) = Cardinality(failed)
       /\ \A r \in failed : \E i \in 1..Len(summary.failures) :
            /\ summary.failures[i].paper = batch[r]
            /\ summary.failures[i].error = runs[r].threw

\* C33 (SpecMain): a configuration error prevents startup: when
\* DATABASE_URL or OPENAI_API_KEY is missing, or the database is
\* unreachable, main stops before any ingestion step: no paper record and no
\* node is created, no run is started and the capability is never called.
C33_ConfigurationErrorStops ==
  LET env == other
      broken == MissingEnvVars(env) # {} \/ ~env.dbUp
  IN (env.kind = "env" /\ broken) =>
       /\ ctl.pc \in {"validateConfig", "checkDatabase", "exit"}
       /\ nodes = <<>> /\ edges = <<>> /\ DOMAIN papers = {} /\ DOMAIN logs = {}
       /\ \A r \in DOMAIN runs : runs[r].pc = "idle" /\ runs[r].trail = <<>>
       /\ ctl.pc = "exit" => env.exit = 1

\* both variables are set, the database is unreachable, and main has exited
\* with code 1 after the connection check
C33_Witness ==
  /\ other.kind = "env" /\ MissingEnvVars(other) = {} /\ ~other.dbUp
  /\ ctl.pc = "exit" /\ other.exit = 1
  /\ DOMAIN papers = {}

\* C34 (Spec): ingestPapers waits exactly between consecutive chunks: while
\* a chunk is being handled the timer has been awaited after each of the
\* chunks before it and after no other, a timer is pending only when another
\* chunk follows, and at the return it has been awaited after every chunk but
\* the last (never for a single chunk).
C34_DelayBetweenChunks ==
  LET len == Len(batch)
      starts == {i \in 0..(len - 1) : i % batchSize = 0}
  IN /\ ctl.pc \in {"loop", "await", "delay"} /\ ctl.i < len
          => ctl.waitedAt = {i \in starts : i < ctl.i}
     /\ ctl.pc = "delay" => ctl.i + batchSize < len
     /\ ctl.pc = "done" => ctl.waitedAt = {i \in starts : i + batchSize < len}

\* two papers in chunks of one: the call has returned after exactly one
\* delay, taken after the first chunk
C34_Witness ==
  /\ ctl.pc = "done" /\ Len(batch) = 2 /\ batchSize = 1
  /\ ctl.waitedAt = {0}
  /\ ctl.started = <<1, 2>>

\* C35 (SpecPaper): confidence clamping is exact: every entity and every
\* relationship a run carries into validation and persistence is a candidate
\* of the capability's reply with its confidence c replaced by
\* min(1, max(0, c)); a confidence of 0 stays 0.
C35_ClampExact ==
  LET Exact(c) == Max(0, Min(10, c))
  IN \A r \in DOMAIN runs :
       LET run == runs[r]
           es == EntityReply(run.text)
           rs == RelationshipReply(run.text)
       IN /\ \A i \in 1..Len(run.entities) : \E j \in 1..Len(es) :
               run.entities[i] = [es[j] EXCEPT !.confidence = Exact(es[j].confidence)]
          /\ \A i \in 1..Len(run.relationships) : \E j \in 1..Len(rs) :
               run.relationships[i] = [rs[j] EXCEPT !.confidence = Exact(rs[j].confidence)]

\* C36 (Spec): with fixed extractor outputs the final graph of a batch does
\* not depend on how the store operations of a chunk's papers interleave: it
\* is the graph of the interleaving that runs the papers one after the other
\* in list order, in which every entity node ends with the description given
\* by the last paper of the list (and the last entity of that paper) that
\* gives one for the node's key.
C36_InterleavingIndependent ==
  (ctl.pc = "done" /\ \A r \in 1..Len(batch) : runs[r].pc = "fulfilled") =>
    \A n \in 1..Len(nodes) :
      LET all == UNION {{<<r, i>> : i \in 1..Len(runs[r].entities)} : r \in 1..Len(batch)}
          givers == {g \in all :
                       /\ runs[g[1]].entities[g[2]].type = nodes[n].type
                       /\ normalizeName(runs[g[1]].entities[g[2]].name) = nodes[n].canonical_name
                       /\ runs[g[1]].entities[g[2]].description # Undefined}
          Later(g, h) == g[1] > h[1] \/ (g[1] = h[1] /\ g[2] >= h[2])
      IN givers # {} =>
           \E g \in givers :
             /\ \A h \in givers : Later(g, h)
             /\ "description" \in DOMAIN nodes[n].metadata
             /\ nodes[n].metadata["description"] = runs[g[1]].entities[g[2]].description

\* C37 (SpecSizes): ingestPapers terminates for every finite paper list and
\* every integer batch size, zero and negative included, when each
\* ingestPaper call terminates: the call eventually returns.
C37_Terminates == <>(ctl.pc = "done")

\* C38 (SpecPaper): once PaperRepository.create has returned or thrown in an
\* ingestPaper call, the paper-kind node it wrote has a papers record with the
\* node's id whose title is the node's name, also when the second statement
\* hit the arxiv_id conflict or failed.
C38_PaperNodeHasRecord ==
  LET run == runs[0]
  IN (/\ run.api = "ingestPaper" /\ run.nodeId # 0
      /\ run.pc \notin {"idle", "createNode", "createRow"}) =>
       /\ nodes[run.nodeId].type = "paper"
       /\ run.nodeId \in DOMAIN papers
       /\ papers[run.nodeId].title = nodes[run.nodeId].name

\* C39 (SpecPaper): reprocessPaper called with an id that has no paper
\* record, or with a paper that has no full text, raises an error and changes
\* nothing: the call is rejected at once, none of its steps has run (no
\* status update, no capability call, no store write), and the four tables are
\* what they were when the call was made.
C39_ReprocessRejectsUnchanged ==
  LET run == runs[0]
      first == call.op # "previous"
      noRecord == run.paper = 0
      noText == run.paper \in DOMAIN papers /\ papers[run.paper].full_text = Null
  IN (run.api = "reprocessPaper" /\ (noRecord \/ noText)) =>
       /\ run.pc = "rejected"
       /\ run.threw = (IF noRecord THEN "notFound" ELSE "noFullText")
       /\ run.trail = <<"rejected">> /\ run.writes = 0
       /\ nodes = (IF first THEN <<>> ELSE call.nodes)
       /\ edges = (IF first THEN <<>> ELSE call.edges)
       /\ DOMAIN papers = (IF first THEN {} ELSE DOMAIN call.papers)
       /\ \A i \in DOMAIN papers : papers[i] = call.papers[i]
       /\ DOMAIN logs = (IF first THEN {} ELSE DOMAIN call.logs)
       /\ \A i \in DOMAIN logs : logs[i] = call.logs[i]

\* reprocessPaper of a stored paper without full text was rejected, after an
\* ingestPaper call that had left a node and a record
C39_Witness ==
  /\ runs[0].api = "reprocessPaper" /\ runs[0].pc = "rejected"
  /\ runs[0].threw = "noFullText"
  /\ call.op = "previous" /\ call.api = "ingestPaper"
  /\ runs[0].paper \in DOMAIN papers /\ papers[runs[0].paper].full_text = Null
  /\ nodes = call.nodes /\ Len(nodes) >= 1

\* C40 (SpecFetch): fetchWithRetry makes at most `retries` attempts and ends
\* in one of two ways: it returns the parsed body of a successful response,
\* or it throws; when every attempt was answered with a 429 it throws rather
\* than returning no value.
C40_ReturnsBodyOrThrows ==
  LET f == other
      n == Len(f.history)
  IN /\ n <= f.retries
     /\ f.pc = "returned" =>
          (f.result = "body" /\ n >= 1 /\ f.history[n] = "ok")
     /\ f.pc = "threw" => f.result = "error"
     /\ (f.pc \in {"returned", "threw"} /\ \A k \in 1..n : f.history[k] = "429")
          => f.pc = "threw"

====
